---- MODULE Spec2Model ----
(***************************************************************************)
(* A model of the .sav reader of PsychSheet: the Feeder (a cursor over an  *)
(* ArrayBuffer), the SavParser entry points meta, headers, schema and all  *)
(* with their promise chains, the field loop, the internal-record loop and *)
(* the DataReader that decodes the case data, and importSheet for a .sav   *)
(* file.                                                                   *)
(*                                                                         *)
(* Values.  An ArrayBuffer is a sequence of bytes.  A decoded string is a  *)
(* sequence of character codes.  A 64-bit float is kept as its bit pattern,*)
(* the 8 bytes most significant first.  An error is a record of the kind   *)
(* (the fixed part of the message, or the class of a built-in error) and   *)
(* the actual value the message carries.  Every reader returns a record    *)
(* [err, cur, val]: the error (NoError when none), the cursor the feeder   *)
(* is left at, and the value (absent when it failed).                      *)
(*                                                                         *)
(* The log array of the parser is a trace for the user only and decides    *)
(* nothing: the entries of SavParser are left out, those of the DataReader *)
(* are kept in the log of the reader.                                      *)
(***************************************************************************)
EXTENDS Integers, Sequences, FiniteSets, TLC

Max(a, b) == IF a > b THEN a ELSE b
Min(a, b) == IF a < b THEN a ELSE b
Abs(a) == IF a < 0 THEN -a ELSE a

\* The % of JavaScript: the sign of the result is the sign of the dividend.
JsRem(a, b) == IF a >= 0 THEN a % b ELSE -((-a) % b)

\* Math.ceil(a / 8) for an integer a.
CeilDiv8(a) == IF a >= 0 THEN (a + 7) \div 8 ELSE -((-a) \div 8)

Error(kind, actual) == [kind |-> kind, actual |-> actual]
NoError == Error("none", <<>>)
Ok(cur, val) == [err |-> NoError, cur |-> cur, val |-> val]
Fail(err, cur) == [err |-> err, cur |-> cur]
Failed(r) == r.err.kind # "none"

EofError == Error("Unexpected End of File", <<>>)
OobError == Error("Jump to out-of-bounds position", <<>>)
\* Thrown by the runtime: a DataView read outside its buffer, an array of
\* negative length.
RangeError == Error("RangeError", <<>>)
\* Thrown by the runtime: a property of undefined.
TypeError == Error("TypeError", <<>>)

(***************************************************************************)
(* ArrayBuffer.prototype.slice(begin, end): a negative index counts from   *)
(* the end of the buffer, both are clamped to [0, length], and the result  *)
(* is empty when end <= begin.                                             *)
(***************************************************************************)
Slice(buf, begin, end) ==
  LET len == Len(buf)
      first == IF begin < 0 THEN Max(len + begin, 0) ELSE Min(begin, len)
      final == IF end < 0 THEN Max(len + end, 0) ELSE Min(end, len)
  IN IF final > first THEN SubSeq(buf, first + 1, final) ELSE <<>>

(***************************************************************************)
(* Feeder                                                                  *)
(***************************************************************************)
jump(len, cur, position) ==
  IF position < 0 \/ position > len
    THEN Fail(OobError, cur)
    ELSE Ok(position, <<>>)

next(buf, cur, size) ==
  IF cur + size > Len(buf)
    THEN Fail(EofError, cur)
    ELSE Ok(cur + size, Slice(buf, cur, cur + size))

(***************************************************************************)
(* DataView and TextDecoder                                                *)
(***************************************************************************)
\* Whether DataView.getXxx(off) of n bytes lies inside the chunk; it throws
\* a RangeError otherwise.
InView(chunk, off, n) == off >= 0 /\ off + n <= Len(chunk)

\* DataView.getInt32(off, true): little-endian, two's complement.
getInt32(chunk, off) ==
  LET b0 == chunk[off + 1]
      b1 == chunk[off + 2]
      b2 == chunk[off + 3]
      b3 == chunk[off + 4]
      hi == IF b3 >= 128 THEN b3 - 256 ELSE b3
  IN hi * 16777216 + b2 * 65536 + b1 * 256 + b0

\* DataView.getInt8(off).
getInt8(chunk, off) ==
  IF chunk[off + 1] >= 128 THEN chunk[off + 1] - 256 ELSE chunk[off + 1]

Reverse(s) == [i \in 1..Len(s) |-> s[Len(s) + 1 - i]]

\* DataView.getFloat64(off, littleEndian): the bit pattern, most significant
\* byte first.
getFloat64(chunk, off, littleEndian) ==
  LET raw == SubSeq(chunk, off + 1, off + 8)
  IN IF littleEndian THEN Reverse(raw) ELSE raw

\* TextDecoder.decode (UTF-8): an ASCII byte is its character; a byte that
\* starts no well-formed sequence becomes U+FFFD.  The buffers of this model
\* hold no well-formed multi-byte sequence.
decode(bytes) == [i \in 1..Len(bytes) |-> IF bytes[i] < 128 THEN bytes[i] ELSE 65533]

WhiteSpace == {9, 10, 11, 12, 13, 32}

SetMin(S) == CHOOSE i \in S : \A j \in S : i <= j
SetMax(S) == CHOOSE i \in S : \A j \in S : i >= j

\* The indices of the characters of s that are not white space.
Inked(s) == {i \in 1..Len(s) : s[i] \notin WhiteSpace}

\* s from the first to the last of the indices I; nothing when I is empty.
Between(s, I, first, final) ==
  IF I = {} THEN <<>>
  ELSE SubSeq(s, IF first THEN SetMin(I) ELSE 1, IF final THEN SetMax(I) ELSE Len(s))

\* String.prototype.trimStart.  The string is bound as x and its inked
\* indices as I, to be evaluated once.
TrimStart(s) ==
  CHOOSE t \in {Between(x[1], x[2], TRUE, FALSE) : x \in {<<y, Inked(y)>> : y \in {s}}} : TRUE

\* String.prototype.trim.
trim(s) ==
  CHOOSE t \in {Between(x[1], x[2], TRUE, TRUE) : x \in {<<y, Inked(y)>> : y \in {s}}} : TRUE

\* String.prototype.substring(0, n).
substring0(s, n) == SubSeq(s, 1, Min(Max(n, 0), Len(s)))

(***************************************************************************)
(* Sequencing: a reader that failed hands its failure on, and the rest     *)
(* (K) is not run; this is how an exception leaves the readers.  The       *)
(* result r is bound as x, so that it is evaluated once however often the  *)
(* rest refers to it.                                                      *)
(***************************************************************************)
Then(r, K(_)) == CHOOSE y \in {IF Failed(x) THEN x ELSE K(x) : x \in {r}} : TRUE

\* A DataView read of n bytes at off throws a RangeError outside the chunk.
View(c, off, n, K(_)) ==
  IF InView(c.val, off, n) THEN K(c) ELSE Fail(RangeError, c.cur)

\* new Array(count) throws a RangeError for a negative count.
NewArray(count, cur, K) == IF count < 0 THEN Fail(RangeError, cur) ELSE K

(***************************************************************************)
(* SavParser.meta: the executor of its promise.  The cursor is at 0.       *)
(***************************************************************************)
HeaderSize == 176
Signature == <<36, 70, 76, 50>>

MetaOf(chunk) ==
  [product     |-> trim(decode(Slice(chunk, 4, 64))),
   layout      |-> getInt32(chunk, 64),
   variables   |-> getInt32(chunk, 68),
   compression |-> getInt32(chunk, 72),
   weightIndex |-> getInt32(chunk, 76),
   cases       |-> getInt32(chunk, 80),
   bias        |-> getFloat64(chunk, 84, TRUE),
   createdDate |-> decode(Slice(chunk, 92, 101)),
   createdTime |-> decode(Slice(chunk, 101, 109)),
   label       |-> trim(decode(Slice(chunk, 109, 173)))]

\* A faulty test of the signature, which accepts every signature.
isNotSavNever(magic) == FALSE

\* magic !== '$FL2'
isNotSav(magic) == magic # Signature

\* reject() on a signature mismatch settles the promise; the resolve() that
\* follows it is then without effect.
metaExecutor(buf, cur) ==
  Then(next(buf, cur, HeaderSize), LAMBDA c :
    IF isNotSav(decode(Slice(c.val, 0, 4)))
      THEN Fail(Error("File is not a sav.", decode(Slice(c.val, 0, 4))), c.cur)
      ELSE Ok(c.cur, MetaOf(c.val)))

(***************************************************************************)
(* The field dictionary                                                    *)
(***************************************************************************)
\* next(4) followed by getInt32(0, true).
nextInt32(buf, cur) ==
  Then(next(buf, cur, 4), LAMBDA c :
    View(c, 0, 4, LAMBDA v : Ok(v.cur, getInt32(v.val, 0))))

\* length rounded up to a multiple of 4, with the % of JavaScript.
LabelSize(length) ==
  IF JsRem(length, 4) # 0 THEN length + (4 - JsRem(length, 4)) ELSE length

readFieldLabel(buf, cur) ==
  Then(nextInt32(buf, cur), LAMBDA l :
    Then(next(buf, l.cur, LabelSize(l.val)), LAMBDA t :
      Ok(t.cur, trim(decode(t.val)))))

\* getFloat64(8 * idx) for idx < count: big-endian.
readFieldMissingCodes(chunk, count) ==
  [idx \in 1..count |-> getFloat64(chunk, 8 * (idx - 1), FALSE)]

readFieldMissingStrings(chunk, count) ==
  [idx \in 1..count |-> decode(Slice(chunk, 8 * (idx - 1), 8 * (idx - 1) + 8))]

readFieldMissingRange(chunk) ==
  <<getFloat64(chunk, 0, TRUE), getFloat64(chunk, 8, TRUE)>>

NoMissing == [codes |-> <<>>, range |-> <<>>, strings |-> <<>>]

\* The bytes the DataView reads of readFieldMissing need.
MissingNeed(numeric, code) ==
  IF numeric /\ code > 0 THEN 8 * code
  ELSE IF numeric /\ code = -3 THEN 24
  ELSE IF numeric /\ code < 0 THEN 16
  ELSE 0

\* A faulty readFieldMissing, which keeps the three codes of a count of -3.
readFieldMissingThree(buf, cur, numeric, code) ==
  Then(next(buf, cur, 8 * Abs(code)), LAMBDA c :
    View(c, 0, MissingNeed(numeric, code), LAMBDA v :
      Ok(v.cur,
         [codes   |-> IF numeric /\ code > 0
                        THEN readFieldMissingCodes(v.val, code)
                      ELSE IF numeric /\ code = -3
                        THEN readFieldMissingCodes(v.val, 3)
                      ELSE <<>>,
          range   |-> IF numeric /\ code < 0
                        THEN readFieldMissingRange(v.val)
                        ELSE <<>>,
          strings |-> IF ~numeric /\ code > 0
                        THEN readFieldMissingStrings(v.val, code)
                        ELSE <<>>])))

\* The range of an absent specification is [undefined, undefined], here <<>>.
readFieldMissing(buf, cur, numeric, code) ==
  Then(next(buf, cur, 8 * Abs(code)), LAMBDA c :
    View(c, 0, MissingNeed(numeric, code), LAMBDA v :
      Ok(v.cur,
         [codes   |-> IF numeric /\ code > 0
                        THEN readFieldMissingCodes(v.val, code)
                      ELSE IF numeric /\ code = -3
                        THEN SubSeq(readFieldMissingCodes(v.val, 3), 3, 3)
                      ELSE <<>>,
          range   |-> IF numeric /\ code < 0
                        THEN readFieldMissingRange(v.val)
                        ELSE <<>>,
          strings |-> IF ~numeric /\ code > 0
                        THEN readFieldMissingStrings(v.val, code)
                        ELSE <<>>])))

FieldBodySize == 28

readField(buf, cur) ==
  Then(next(buf, cur, FieldBodySize), LAMBDA c :
    View(c, 0, 12, LAMBDA v :
      Then(IF getInt32(v.val, 4) # 0
             THEN readFieldLabel(buf, v.cur)
             ELSE Ok(v.cur, <<>>), LAMBDA label :
        Then(IF getInt32(v.val, 8) # 0
               THEN readFieldMissing(buf, label.cur, getInt32(v.val, 0) = 0,
                                     getInt32(v.val, 8))
               ELSE Ok(label.cur, NoMissing), LAMBDA missing :
          Ok(missing.cur,
             [start |-> cur, code |-> getInt32(v.val, 0),
              name |-> trim(decode(Slice(v.val, 20, 28))),
              label |-> label.val, missing |-> missing.val,
              trailers |-> 0])))))

(***************************************************************************)
(* One iteration of the loop of SavParser.readFields.  The result says     *)
(* whether the loop has ended (done) and holds the field list.             *)
(***************************************************************************)
FieldTag == 2

Iter(cur, val, done) == [err |-> NoError, cur |-> cur, val |-> val, done |-> done]

\* A faulty end of the loop, which leaves the cursor after the tag.
rewindNot(len, cur, fields) == Iter(cur, fields, TRUE)

\* feeder.jump(feeder.position() - 4); break
rewind(len, cur, fields) ==
  Then(jump(len, cur, cur - 4), LAMBDA j : Iter(j.cur, fields, TRUE))

\* A faulty keep, which appends every record to the list.
keepEvery(cur, fields, field) == Iter(cur, Append(fields, field), FALSE)

\* fields.push(field), or fields[fields.length - 1].trailers++, which throws
\* a TypeError when there is no field yet.
keep(cur, fields, field) ==
  IF field.code > -1 THEN Iter(cur, Append(fields, field), FALSE)
  ELSE IF fields = <<>> THEN Fail(TypeError, cur)
  ELSE Iter(cur, [fields EXCEPT ![Len(fields)].trailers = @ + 1], FALSE)

readFieldsIter(buf, cur, fields) ==
  Then(nextInt32(buf, cur), LAMBDA t :
    IF t.val # FieldTag
      THEN rewind(Len(buf), t.cur, fields)
      ELSE Then(readField(buf, t.cur), LAMBDA f : keep(f.cur, fields, f.val)))

(***************************************************************************)
(* Maps and text                                                           *)
(***************************************************************************)
\* A Map is the sequence of its entries [k, v] in insertion order.
\* Map.prototype.set: a present key keeps its place and takes the new value.
RECURSIVE MapSet(_, _, _)
MapSet(m, k, v) ==
  IF m = <<>> THEN <<[k |-> k, v |-> v]>>
  ELSE IF Head(m).k = k THEN <<[k |-> k, v |-> v]>> \o Tail(m)
  ELSE <<Head(m)>> \o MapSet(Tail(m), k, v)

\* new Map([...m, ...entries]).
RECURSIVE MapMerge(_, _)
MapMerge(m, entries) ==
  IF entries = <<>> THEN m
  ELSE MapMerge(MapSet(m, Head(entries).k, Head(entries).v), Tail(entries))

\* String.prototype.split(d) for a one-character separator d.
RECURSIVE Split(_, _)
Split(s, d) ==
  IF \A i \in 1..Len(s) : s[i] # d THEN <<s>>
  ELSE LET i == CHOOSE j \in 1..Len(s) : s[j] = d /\ \A h \in 1..(j - 1) : s[h] # d
       IN <<SubSeq(s, 1, i - 1)>> \o Split(SubSeq(s, i + 1, Len(s)), d)

Tab == 9
EqualsSign == 61

\* str.split('=') as a Map entry: the key is the first piece, the value the
\* second; a missing second piece is undefined, here <<>>, and a present one
\* v is <<v>>.
PairOf(str) ==
  LET ps == Split(str, EqualsSign)
  IN [k |-> ps[1], v |-> IF Len(ps) > 1 THEN <<ps[2]>> ELSE <<>>]

Digits == 48..57

RECURSIVE DigitsValue(_, _)
DigitsValue(s, acc) ==
  IF s = <<>> \/ Head(s) \notin Digits THEN acc
  ELSE DigitsValue(Tail(s), 10 * acc + (Head(s) - 48))

\* parseInt(v, 10): <<n>>, or <<>> for NaN.
parseInt10(v) ==
  IF v = <<>> THEN <<>>
  ELSE LET t == TrimStart(v[1])
           neg == t # <<>> /\ Head(t) = 45
           u == IF t # <<>> /\ Head(t) \in {43, 45} THEN Tail(t) ELSE t
       IN IF u = <<>> \/ Head(u) \notin Digits THEN <<>>
          ELSE <<IF neg THEN -DigitsValue(u, 0) ELSE DigitsValue(u, 0)>>

\* The key a Map keeps for a float: -0 is +0 and every NaN is one key.
FloatKey(bits) ==
  IF bits[1] % 128 = 127 /\ bits[2] \div 16 = 15
     /\ (bits[2] % 16 # 0 \/ \E i \in 3..8 : bits[i] # 0)
    THEN <<127, 248, 0, 0, 0, 0, 0, 0>>
  ELSE IF bits[1] = 128 /\ \A i \in 2..8 : bits[i] = 0
    THEN <<0, 0, 0, 0, 0, 0, 0, 0>>
  ELSE bits

(***************************************************************************)
(* The internal records                                                    *)
(***************************************************************************)
\* The bytes of the padded label text of a level.
LevelSize(length) ==
  IF JsRem(length + 1, 8) # 0 THEN length + (8 - JsRem(length + 1, 8)) ELSE length

getLevel(buf, cur) ==
  Then(next(buf, cur, 9), LAMBDA c :
    View(c, 0, 9, LAMBDA v :
      Then(next(buf, v.cur, LevelSize(getInt8(v.val, 8))), LAMBDA t :
        Ok(t.cur, [k |-> FloatKey(getFloat64(v.val, 0, TRUE)),
                   v |-> trim(substring0(decode(t.val), getInt8(v.val, 8)))]))))

\* readArray.map(() => this.getLevel(feeder)) over count elements.
RECURSIVE getLevels(_, _, _, _)
getLevels(buf, cur, count, acc) ==
  IF count = 0 THEN Ok(cur, acc)
  ELSE Then(getLevel(buf, cur), LAMBDA l :
         getLevels(buf, l.cur, count - 1, Append(acc, l.val)))

ScaleMagic == 4

\* The indices of a table, after its magic value has been accepted.
readIndices(buf, cur, levels, icount) ==
  Then(next(buf, cur, 4 * icount), LAMBDA iv :
    NewArray(icount, iv.cur,
      View(iv, 0, 4 * icount, LAMBDA w :
        Ok(w.cur, [map |-> MapMerge(<<>>, levels),
                   indices |-> {getInt32(w.val, 4 * (idx - 1)) : idx \in 1..icount}]))))

\* A faulty check, which accepts every magic value.
checkMagicNever(buf, cur, levels, magic, icount) ==
  readIndices(buf, cur, levels, icount)

\* if (magic !== 4) throw
checkMagic(buf, cur, levels, magic, icount) ==
  IF magic # ScaleMagic
    THEN Fail(Error("Levels read error. Magic value Expected: 4", <<magic>>), cur)
    ELSE readIndices(buf, cur, levels, icount)

readScale(buf, cur) ==
  Then(nextInt32(buf, cur), LAMBDA n :
    NewArray(n.val, n.cur,
      Then(getLevels(buf, n.cur, n.val, <<>>), LAMBDA ls :
        Then(next(buf, ls.cur, 8), LAMBDA c :
          View(c, 0, 8, LAMBDA v :
            checkMagic(buf, v.cur, ls.val, getInt32(v.val, 0), getInt32(v.val, 4)))))))

DocumentLine == 80

readDocument(buf, cur) ==
  Then(nextInt32(buf, cur), LAMBDA n :
    Then(next(buf, n.cur, n.val * DocumentLine), LAMBDA c :
      NewArray(n.val, c.cur,
        Ok(c.cur, [idx \in 1..n.val |->
                     decode(Slice(c.val, (idx - 1) * DocumentLine,
                                  (idx - 1) * DocumentLine + DocumentLine))]))))

readSysInteger(buf, cur) ==
  Then(next(buf, cur, 32), LAMBDA c :
    View(c, 0, 32, LAMBDA v :
      Ok(v.cur, [major       |-> getInt32(v.val, 0),
                 minor       |-> getInt32(v.val, 4),
                 revision    |-> getInt32(v.val, 8),
                 machine     |-> getInt32(v.val, 12),
                 float       |-> getInt32(v.val, 16),
                 compression |-> getInt32(v.val, 20),
                 endianness  |-> getInt32(v.val, 24),
                 character   |-> getInt32(v.val, 28)])))

readSysFloat(buf, cur) ==
  Then(next(buf, cur, 24), LAMBDA c :
    View(c, 0, 24, LAMBDA v :
      Ok(v.cur, [missing |-> getFloat64(v.val, 0, TRUE),
                 high    |-> getFloat64(v.val, 8, TRUE),
                 low     |-> getFloat64(v.val, 16, TRUE)])))

\* A faulty readSysDisplay, which yields the triples last to first.
readSysDisplayBackward(buf, cur, count) ==
  Then(next(buf, cur, count * 12), LAMBDA c :
    NewArray(count, c.cur,
      View(c, 0, count * 12, LAMBDA v :
        Ok(v.cur, [idx \in 1..count |->
                     [type  |-> getInt32(v.val, (count - idx) * 12),
                      width |-> getInt32(v.val, (count - idx) * 12 + 4),
                      align |-> getInt32(v.val, (count - idx) * 12 + 8)]]))))

readSysDisplay(buf, cur, count) ==
  Then(next(buf, cur, count * 12), LAMBDA c :
    NewArray(count, c.cur,
      View(c, 0, count * 12, LAMBDA v :
        Ok(v.cur, [idx \in 1..count |->
                     [type  |-> getInt32(v.val, (idx - 1) * 12),
                      width |-> getInt32(v.val, (idx - 1) * 12 + 4),
                      align |-> getInt32(v.val, (idx - 1) * 12 + 8)]]))))

\* The entries of raw.split('\t').map((str) => str.split('=')).
Pairs(rows) == [i \in 1..Len(rows) |-> PairOf(rows[i])]

readNames(buf, cur, size) ==
  Then(next(buf, cur, size), LAMBDA c :
    Ok(c.cur, MapMerge(<<>>, Pairs(Split(decode(c.val), Tab)))))

\* rows.slice(0, rows.length - 1), the values through parseInt(length, 10).
Widths(rows) ==
  [i \in 1..(Len(rows) - 1) |->
     [k |-> PairOf(rows[i]).k, v |-> parseInt10(PairOf(rows[i]).v)]]

readLongWidths(buf, cur, size) ==
  Then(next(buf, cur, size), LAMBDA c :
    Ok(c.cur, MapMerge(<<>>, Widths(Split(decode(c.val), Tab)))))

\* A faulty readLongNames, which takes the payload and the 4 bytes after it.
readLongNamesAndTag(buf, cur, size) == next(buf, cur, size + 4)

readLongNames(buf, cur, size) == next(buf, cur, size)

\* A faulty readUnrecognized, which cuts the payload into records of 8 bytes
\* whatever the element size.
readUnrecognizedFixed8(buf, cur, count, length) ==
  Then(next(buf, cur, count * length), LAMBDA c :
    NewArray(count, c.cur,
      Ok(c.cur, [idx \in 1..count |-> Slice(c.val, (idx - 1) * 8, (idx - 1) * 8 + 8)])))

readUnrecognized(buf, cur, count, length) ==
  Then(next(buf, cur, count * length), LAMBDA c :
    NewArray(count, c.cur,
      Ok(c.cur, [idx \in 1..count |->
                   Slice(c.val, (idx - 1) * length, (idx - 1) * length + length)])))

(***************************************************************************)
(* One iteration of the loop of SavParser.readInternal.  partial holds     *)
(* every key of the Partial<Internal>; an unset float, integer or finished *)
(* is <<>> and a set one x is <<x>>; an unset list or map is empty.        *)
(***************************************************************************)
EmptyInternal ==
  [float |-> <<>>, integer |-> <<>>, display |-> <<>>, documents |-> <<>>,
   names |-> <<>>, longs |-> <<>>, levels |-> <<>>, extra |-> <<>>,
   unrecognized |-> <<>>, finished |-> <<>>]

\* while (!partial.finished): an offset of 0 is falsy as well.
Finished(partial) == partial.finished # <<>> /\ partial.finished[1] # 0

Step(cur, partial) == Iter(cur, partial, Finished(partial))

\* case 7, by subcode, after the 12-byte sub-header.
readExtension(buf, cur, partial, subcode, length, count) ==
  CASE subcode = 3 ->
         IF length * count # 32
           THEN Fail(Error("Special code 3 Expected: 32 bytes", <<length * count>>), cur)
           ELSE Then(readSysInteger(buf, cur), LAMBDA r :
                  Step(r.cur, [partial EXCEPT !.integer = <<r.val>>]))
    [] subcode = 4 ->
         IF length * count # 24
           THEN Fail(Error("Special code 4 Expected: 24 bytes", <<length * count>>), cur)
           ELSE Then(readSysFloat(buf, cur), LAMBDA r :
                  Step(r.cur, [partial EXCEPT !.float = <<r.val>>]))
    [] subcode = 11 ->
         IF length # 4
           THEN Fail(Error("Special code 11 Expected: 4 bytes", <<length>>), cur)
         ELSE IF JsRem(count, 3) # 0
           THEN Fail(Error("Special code 11 Expected: Length factor of 3", <<length>>), cur)
         ELSE Then(readSysDisplay(buf, cur, count \div 3), LAMBDA r :
                Step(r.cur, [partial EXCEPT !.display = @ \o r.val]))
    [] subcode = 13 ->
         Then(readNames(buf, cur, count * length), LAMBDA r :
           Step(r.cur, [partial EXCEPT !.names = MapMerge(@, r.val)]))
    [] subcode = 14 ->
         Then(readLongWidths(buf, cur, count * length), LAMBDA r :
           Step(r.cur, [partial EXCEPT !.longs = MapMerge(@, r.val)]))
    [] subcode = 21 ->
         Then(readLongNames(buf, cur, count * length), LAMBDA r :
           Step(r.cur, [partial EXCEPT !.extra = Append(@, r.val)]))
    [] OTHER ->
         Then(readUnrecognized(buf, cur, count, length), LAMBDA r :
           Step(r.cur, [partial EXCEPT !.unrecognized = Append(@, <<subcode, r.val>>)]))

\* A faulty default: which skips the tag and lets the loop go on.
unknownCodeIgnored(cur, partial, code) == Step(cur, partial)

\* default: of the switch on the record tag.
unknownCode(cur, partial, code) ==
  Fail(Error("Internal Code Expected : [3, 6, 7, 999]", <<code>>), cur)

ScaleTag == 3
DocumentTag == 6
ExtensionTag == 7
FinishTag == 999

\* The switch on the record tag.
readRecord(buf, cur, partial, code) ==
  CASE code = ScaleTag ->
         Then(readScale(buf, cur), LAMBDA r :
           Step(r.cur, [partial EXCEPT !.levels = Append(@, r.val)]))
    [] code = DocumentTag ->
         Then(readDocument(buf, cur), LAMBDA r :
           Step(r.cur, [partial EXCEPT !.documents = @ \o r.val]))
    [] code = ExtensionTag ->
         Then(next(buf, cur, 12), LAMBDA c :
           View(c, 0, 12, LAMBDA v :
             readExtension(buf, v.cur, partial, getInt32(v.val, 0),
                           getInt32(v.val, 4), getInt32(v.val, 8))))
    [] code = FinishTag ->
         Then(next(buf, cur, 4), LAMBDA c :
           Step(c.cur, [partial EXCEPT !.finished = <<c.cur>>]))
    [] OTHER -> unknownCode(cur, partial, code)

readInternalIter(buf, cur, partial) ==
  Then(nextInt32(buf, cur), LAMBDA t : readRecord(buf, t.cur, partial, t.val))

(***************************************************************************)
(* Numbers.  A double is its bit pattern.  code - bias is computed for a   *)
(* bias that is an integer of magnitude below 2^21; for any other bias the *)
(* difference is kept unevaluated as the code followed by the bias.        *)
(***************************************************************************)
RECURSIVE Pow2(_)
Pow2(e) == IF e = 0 THEN 1 ELSE 2 * Pow2(e - 1)

RECURSIVE Log2(_)
Log2(a) == IF a < 2 THEN 0 ELSE 1 + Log2(a \div 2)

ZeroBits == <<0, 0, 0, 0, 0, 0, 0, 0>>

IsSmallInt(bits) ==
  \/ bits = ZeroBits
  \/ LET e == (bits[1] % 128) * 16 + bits[2] \div 16 - 1023
         m == (bits[2] % 16) * 65536 + bits[3] * 256 + bits[4]
     IN /\ e \in 0..20
        /\ \A i \in 5..8 : bits[i] = 0
        /\ m % Pow2(20 - e) = 0

FloatToInt(bits) ==
  IF bits = ZeroBits THEN 0
  ELSE LET e == (bits[1] % 128) * 16 + bits[2] \div 16 - 1023
           m == (bits[2] % 16) * 65536 + bits[3] * 256 + bits[4]
           a == Pow2(e) + m \div Pow2(20 - e)
       IN IF bits[1] >= 128 THEN -a ELSE a

IntToFloat(n) ==
  IF n = 0 THEN ZeroBits
  ELSE LET a == Abs(n)
           e == Log2(a)
           m == (a - Pow2(e)) * Pow2(20 - e)
           biased == e + 1023
       IN <<(IF n < 0 THEN 128 ELSE 0) + biased \div 16,
            (biased % 16) * 16 + m \div 65536,
            (m \div 256) % 256, m % 256, 0, 0, 0, 0>>

Minus(code, bias) ==
  IF IsSmallInt(bias) THEN IntToFloat(code - FloatToInt(bias)) ELSE <<code>> \o bias

(***************************************************************************)
(* DataReader.  rd is the reader: the cursor of its feeder (cur), the      *)
(* instruction block (ins), the index of the next instruction (icur) and   *)
(* its log.  The log holds what the reader pushes ("Row" with the index of *)
(* the row, "Cell" with the name of the field) and, for the properties,    *)
(* what it does in between: each 8 bytes it takes from the feeder, as an   *)
(* instruction block ("block"), as the literal of a code 253 ("literal")   *)
(* or as an uncompressed value ("raw"), with the offset they were taken    *)
(* at, and each code the instruction reader returns ("code").              *)
(* A reading returns [err, rd, val].  A cell is [t, v]: a number ("num",   *)
(* its bits), a string ("str", its characters) or null ("null", <<>>).     *)
(***************************************************************************)
Got(rd, val) == [err |-> NoError, rd |-> rd, val |-> val]
Threw(err, rd) == [err |-> err, rd |-> rd]

Num(bits) == [t |-> "num", v |-> bits]
Str(chars) == [t |-> "str", v |-> chars]
Null == [t |-> "null", v |-> <<>>]

\* this.log.push
Logged(rd, what, arg) == [rd EXCEPT !.log = Append(@, <<what, arg>>)]

\* A faulty reading, which leaves the cursor of the feeder where it was.
FedStays(rd, c, what) ==
  IF Failed(c) THEN Threw(c.err, rd)
  ELSE Got(Logged(rd, what, rd.cur), c.val)

\* What this.feeder.next(8) gave the reader.
Fed(rd, c, what) ==
  IF Failed(c) THEN Threw(c.err, rd)
  ELSE Got(Logged([rd EXCEPT !.cur = c.cur], what, rd.cur), c.val)

feed8(buf, rd, what) == Fed(rd, next(buf, rd.cur, 8), what)

\* return instruction
Served(rd, instruction) == Got(Logged(rd, "code", instruction), instruction)

\* The reader with a block and the next index into it.
Block(rd, ins, icur) == [rd EXCEPT !.ins = ins, !.icur = icur]

\* A faulty instruction reader, which returns the next byte of the block
\* whatever it is.
compressedCodesUnfiltered(buf, rd) ==
  IF rd.icur > 7
    THEN Then(feed8(buf, rd, "block"), LAMBDA c :
           Served(Block(c.rd, c.val, 1), c.val[1]))
    ELSE Served(Block(rd, rd.ins, rd.icur + 1), rd.ins[rd.icur + 1])

RECURSIVE compressedCodes(_, _)
compressedCodes(buf, rd) ==
  IF rd.icur > 7
    THEN Then(feed8(buf, rd, "block"), LAMBDA c :
           IF c.val[1] = 0
             THEN compressedCodes(buf, Block(c.rd, c.val, 1))
             ELSE Served(Block(c.rd, c.val, 1), c.val[1]))
    ELSE IF rd.ins[rd.icur + 1] = 0
           THEN compressedCodes(buf, Block(rd, rd.ins, rd.icur + 1))
           ELSE Served(Block(rd, rd.ins, rd.icur + 1), rd.ins[rd.icur + 1])

\* A faulty test, which takes every file but one of endianness flag 1 for
\* little-endian.
LittleEndianUnlessOne(schema) ==
  schema.internal.integer = <<>> \/ schema.internal.integer[1].endianness # 1

\* this.schema.internal.integer.endianness === 2
LittleEndian(schema) ==
  schema.internal.integer # <<>> /\ schema.internal.integer[1].endianness = 2

uncompressedNumber(buf, rd, schema) ==
  Then(feed8(buf, rd, "raw"), LAMBDA c :
    Got(c.rd, Num(getFloat64(c.val, 0, LittleEndian(schema)))))

\* pieces.concat(...) returns a new array and leaves pieces empty.
RECURSIVE uncompressedString(_, _, _)
uncompressedString(buf, rd, length) ==
  Then(feed8(buf, rd, "raw"), LAMBDA c :
    IF length - 1 # 0
      THEN uncompressedString(buf, c.rd, length - 1)
      ELSE Got(c.rd, Str(<<>>)))

\* A faulty switch, which decodes a literal by the endianness of the file.
numberOfByEndianness(buf, rd, schema, code) ==
  CASE code = 252 -> Threw(Error("Unexpected end of records.", <<>>), rd)
    [] code = 253 ->
         Then(feed8(buf, rd, "literal"), LAMBDA c :
           Got(c.rd, Num(getFloat64(c.val, 0, LittleEndian(schema)))))
    [] code = 254 -> Threw(Error("Cell code type mismatch", <<>>), rd)
    [] code = 255 -> Got(rd, Null)
    [] OTHER -> Got(rd, Num(Minus(code, schema.meta.bias)))

\* A faulty switch, which adds the bias to a code.
numberOfPlusBias(buf, rd, schema, code) ==
  CASE code = 252 -> Threw(Error("Unexpected end of records.", <<>>), rd)
    [] code = 253 ->
         Then(feed8(buf, rd, "literal"), LAMBDA c :
           Got(c.rd, Num(getFloat64(c.val, 0, TRUE))))
    [] code = 254 -> Threw(Error("Cell code type mismatch", <<>>), rd)
    [] code = 255 -> Got(rd, Null)
    [] OTHER -> Got(rd, Num(IntToFloat(code + FloatToInt(schema.meta.bias))))

\* The switch of compressedNumber on the code.
numberOf(buf, rd, schema, code) ==
  CASE code = 252 -> Threw(Error("Unexpected end of records.", <<>>), rd)
    [] code = 253 ->
         Then(feed8(buf, rd, "literal"), LAMBDA c :
           Got(c.rd, Num(getFloat64(c.val, 0, TRUE))))
    [] code = 254 -> Threw(Error("Cell code type mismatch", <<>>), rd)
    [] code = 255 -> Got(rd, Null)
    [] OTHER -> Got(rd, Num(Minus(code, schema.meta.bias)))

compressedNumber(buf, rd, schema) ==
  Then(compressedCodes(buf, rd), LAMBDA k : numberOf(buf, k.rd, schema, k.val))

RECURSIVE compressedString(_, _, _, _)

\* while (--length), then pieces.join('').
more(buf, rd, length, pieces) ==
  IF length - 1 # 0
    THEN compressedString(buf, rd, length - 1, pieces)
    ELSE Got(rd, Str(pieces))

\* A faulty switch, which takes the code 255 for an empty segment.
pieceOfNullAsEmpty(buf, rd, length, pieces, code) ==
  CASE code = 252 -> Threw(Error("Unexpected end of records.", <<>>), rd)
    [] code = 253 ->
         Then(feed8(buf, rd, "literal"), LAMBDA c :
           more(buf, c.rd, length, pieces \o decode(c.val)))
    [] code = 254 -> more(buf, rd, length, pieces)
    [] code = 255 -> more(buf, rd, length, pieces)
    [] OTHER -> Threw(Error("Default code not supported for strings.", <<>>), rd)

\* The switch of compressedString on the code.
pieceOf(buf, rd, length, pieces, code) ==
  CASE code = 252 -> Threw(Error("Unexpected end of records.", <<>>), rd)
    [] code = 253 ->
         Then(feed8(buf, rd, "literal"), LAMBDA c :
           more(buf, c.rd, length, pieces \o decode(c.val)))
    [] code = 254 -> more(buf, rd, length, pieces)
    [] code = 255 -> Got(rd, Null)
    [] OTHER -> Threw(Error("Default code not supported for strings.", <<>>), rd)

compressedString(buf, rd, length, pieces) ==
  Then(compressedCodes(buf, rd), LAMBDA k :
    pieceOf(buf, k.rd, length, pieces, k.val))

\* A faulty readNumber, which with a compression flag of 2 decodes a
\* literal most significant byte first.
readNumberReversed(buf, rd, schema) ==
  IF schema.meta.compression = 0
    THEN uncompressedNumber(buf, rd, schema)
    ELSE Then(compressedCodes(buf, rd), LAMBDA k :
           IF schema.meta.compression = 2 /\ k.val = 253
             THEN Then(feed8(buf, k.rd, "literal"), LAMBDA c :
                    Got(c.rd, Num(getFloat64(c.val, 0, FALSE))))
             ELSE numberOf(buf, k.rd, schema, k.val))

readNumber(buf, rd, schema) ==
  IF schema.meta.compression # 0
    THEN compressedNumber(buf, rd, schema)
    ELSE uncompressedNumber(buf, rd, schema)

readString(buf, rd, schema, length) ==
  IF schema.meta.compression # 0
    THEN compressedString(buf, rd, length, <<>>)
    ELSE uncompressedString(buf, rd, length)

\* readCell after its push to the log.
cellOf(buf, rd, schema, header) ==
  IF header.code # 0
    THEN readString(buf, rd, schema, CeilDiv8(header.code))
    ELSE readNumber(buf, rd, schema)

readCell(buf, rd, schema, header) ==
  cellOf(buf, Logged(rd, "Cell", header.name), schema, header)

\* A faulty Map, which holds one entry for each field even when a name
\* comes twice.
withEntryByPlace(row, header, value) ==
  Append(row, [k |-> header.name, v |-> value])

\* The Map of a row with the entry [header.name, value] of one more field.
withEntry(row, header, value) == MapSet(row, header.name, value)

\* new Map(headers.map((header) => [header.name, readCell(header)])): the
\* cells are read in the order of the headers, then the Map is built.
RECURSIVE readRow(_, _, _, _, _)
readRow(buf, rd, schema, i, row) ==
  IF i > Len(schema.headers) THEN Got(rd, row)
  ELSE Then(readCell(buf, rd, schema, schema.headers[i]), LAMBDA c :
         readRow(buf, c.rd, schema, i + 1,
                 withEntry(row, schema.headers[i], c.val)))

\* new Array(cases).fill(0).map(() => this.readRow())
RECURSIVE readRows(_, _, _, _, _)
readRows(buf, rd, schema, n, rows) ==
  IF n = 0 THEN Got(rd, rows)
  ELSE Then(readRow(buf, Logged(rd, "Row", Len(rows)), schema, 1, <<>>), LAMBDA r :
         readRows(buf, r.rd, schema, n - 1, Append(rows, r.val)))

\* The reader as constructed: its block index past the end of a block.
NewReader(cur) == [cur |-> cur, ins |-> <<>>, icur |-> 8, log |-> <<>>]

\* The result of the rows as a result of the feeder.
OfReader(r) == IF Failed(r) THEN Fail(r.err, r.rd.cur) ELSE Ok(r.rd.cur, r.val)

\* A faulty read, which decodes one row fewer than the header declares.
readOneFewer(buf, schema, position) ==
  Then(jump(Len(buf), position, schema.internal.finished[1]), LAMBDA j :
    NewArray(schema.meta.cases, j.cur,
      Then(OfReader(readRows(buf, NewReader(j.cur), schema,
                             Max(schema.meta.cases - 1, 0), <<>>)),
           LAMBDA r :
        Then(jump(Len(buf), r.cur, position), LAMBDA b : Ok(b.cur, r.val)))))

\* DataReader.read of a reader constructed with the feeder at position.
read(buf, schema, position) ==
  Then(jump(Len(buf), position, schema.internal.finished[1]), LAMBDA j :
    NewArray(schema.meta.cases, j.cur,
      Then(OfReader(readRows(buf, NewReader(j.cur), schema, schema.meta.cases, <<>>)),
           LAMBDA r :
        Then(jump(Len(buf), r.cur, position), LAMBDA b : Ok(b.cur, r.val)))))

(***************************************************************************)
(* The loops run to their end, and each entry point run by itself on a     *)
(* fresh Feeder (cursor 0, no other call in flight).  A loop that has not  *)
(* ended after MaxIter iterations is reported as Diverged: the buffers of  *)
(* this model end every loop that ends at all in fewer iterations.         *)
(***************************************************************************)
MaxIter == 6

Diverged == Error("Diverged", <<>>)

RECURSIVE readFields(_, _, _, _)
readFields(buf, cur, fields, fuel) ==
  IF fuel = 0 THEN Fail(Diverged, cur)
  ELSE Then(readFieldsIter(buf, cur, fields), LAMBDA r :
         IF r.done THEN Ok(r.cur, r.val)
         ELSE readFields(buf, r.cur, r.val, fuel - 1))

RECURSIVE readInternal(_, _, _, _)
readInternal(buf, cur, partial, fuel) ==
  IF fuel = 0 THEN Fail(Diverged, cur)
  ELSE Then(readInternalIter(buf, cur, partial), LAMBDA r :
         IF r.done THEN Ok(r.cur, r.val)
         ELSE readInternal(buf, r.cur, r.val, fuel - 1))

\* What the caller of an entry point gets: the error or the value.
Value(r) == IF Failed(r) THEN <<>> ELSE r.val
Outcome(r) == [err |-> r.err, val |-> Value(r)]

metaAlone(buf) == metaExecutor(buf, 0)

headersAlone(buf) ==
  Then(jump(Len(buf), 0, HeaderSize), LAMBDA j :
    readFields(buf, j.cur, <<>>, MaxIter))

schemaAlone(buf) ==
  Then(metaAlone(buf), LAMBDA m :
    Then(headersAlone(buf), LAMBDA h :
      Then(readInternal(buf, h.cur, EmptyInternal, MaxIter), LAMBDA n :
        Ok(n.cur, [meta |-> m.val, headers |-> h.val, internal |-> n.val]))))

allAlone(buf) ==
  Then(schemaAlone(buf), LAMBDA s :
    Then(read(buf, s.val, 0), LAMBDA r :
      Ok(r.cur, [meta |-> s.val.meta, headers |-> s.val.headers,
                 internal |-> s.val.internal, rows |-> r.val])))

Alone(kind, buf) ==
  CASE kind = "meta" -> Outcome(metaAlone(buf))
    [] kind = "headers" -> Outcome(headersAlone(buf))
    [] kind = "schema" -> Outcome(schemaAlone(buf))
    [] kind = "all" -> Outcome(allAlone(buf))

(***************************************************************************)
(* The buffers the model reads.  Each is built from the records of the     *)
(* file format, so that every loop of the parser is entered and every kind *)
(* of failure happens.                                                     *)
(***************************************************************************)
\* The 4 bytes of a 32-bit integer, least significant first.
I32(n) ==
  LET m == IF n < 0 THEN n + 2147483647 + 1 ELSE n
  IN <<m % 256, (m \div 256) % 256, (m \div 65536) % 256,
       (m \div 16777216) + (IF n < 0 THEN 128 ELSE 0)>>

Fill(n, b) == [i \in 1..n |-> b]

\* The 8 bytes of an integer-valued double, least significant first.
F64(n) == Reverse(IntToFloat(n))

GoodSignature == Signature
BadSignature == <<36, 70, 76, 51>>

\* The 176-byte header.
Hdr(sig, compression, cases, bias) ==
  sig \o Fill(60, 32) \o I32(2) \o I32(1) \o I32(compression) \o I32(0)
      \o I32(cases) \o F64(bias) \o Fill(9, 48) \o Fill(8, 48) \o Fill(64, 32)
      \o Fill(3, 0)

Name8(c) == <<c>> \o Fill(7, 32)

\* A field record without label and missing values.
Field(code, c) ==
  I32(2) \o I32(code) \o I32(0) \o I32(0) \o I32(0) \o I32(0) \o Name8(c)

\* A field record whose label block declares length bytes of text.
FieldLabel(code, c, length, text) ==
  I32(2) \o I32(code) \o I32(1) \o I32(0) \o I32(0) \o I32(0) \o Name8(c)
         \o I32(length) \o text

Ext(subcode, length, count, payload) ==
  I32(7) \o I32(subcode) \o I32(length) \o I32(count) \o payload

Finish == I32(999) \o I32(0)

Hello == <<72, 69, 76, 76, 79, 32, 32, 32>>

\* Uncompressed, one numeric field, one unknown extension, two cases.
BufPlain ==
  Hdr(GoodSignature, 0, 2, 100) \o Field(0, 88)
    \o Ext(99, 4, 2, <<1, 2, 3, 4, 5, 6, 7, 8>>) \o Finish \o F64(7) \o F64(9)

\* Compressed, a numeric field and a string field of width 10 with its
\* continuation record, two cases.
BufPacked ==
  Hdr(GoodSignature, 1, 2, 100) \o Field(0, 78) \o Field(10, 83) \o Field(-1, 32)
    \o Finish \o <<101, 253, 254, 255, 255, 0, 0, 0>> \o Hello

\* BufPlain with a wrong signature.
BufBadSignature ==
  Hdr(BadSignature, 0, 2, 100) \o Field(0, 88)
    \o Ext(99, 4, 2, <<1, 2, 3, 4, 5, 6, 7, 8>>) \o Finish \o F64(7) \o F64(9)

\* Shorter than the header, with a wrong signature.
BufShort == BadSignature \o <<0, 0, 0, 0>>

\* Ends inside the first field record.
BufTruncated == Hdr(GoodSignature, 0, 2, 100) \o I32(2) \o Fill(10, 0)

\* A record tag outside 3, 6, 7, 999.
BufUnknownTag ==
  Hdr(GoodSignature, 0, 1, 100) \o Field(0, 88) \o I32(5) \o Finish \o F64(7)

\* A field record after an internal record.
BufLateField ==
  Hdr(GoodSignature, 0, 1, 100) \o Field(0, 88) \o Ext(99, 1, 4, <<1, 2, 3, 4>>)
    \o Field(0, 89) \o Finish \o F64(7)

\* A label of declared length -300.
BufNegativeLabel ==
  Hdr(GoodSignature, 0, 1, 100) \o FieldLabel(0, 88, -300, <<>>)

\* A name-map record of element size -16: its payload ends where its tag
\* starts.
BufBackward ==
  Hdr(GoodSignature, 0, 1, 100) \o Field(0, 88) \o Ext(13, -16, 1, <<>>)
    \o Finish \o F64(7)

\* An unknown extension of element size -4 and count -1: 4 bytes.
BufNegativeExt ==
  Hdr(GoodSignature, 0, 1, 100) \o Field(0, 88) \o Ext(99, -4, -1, <<1, 2, 3, 4>>)
    \o Finish \o F64(7)

\* Three cases declared, two stored.
BufFewRows ==
  Hdr(GoodSignature, 0, 3, 100) \o Field(0, 88) \o Finish \o F64(7) \o F64(9)

\* A display record (subtype 11) of 5 elements of 4 bytes.
BufDisplayCount ==
  Hdr(GoodSignature, 0, 1, 100) \o Field(0, 88) \o Ext(11, 4, 5, Fill(20, 0))
    \o Finish \o F64(7)

Yes == <<121, 101, 115>>

\* A value-label table (tag 3): one level, 1 = "yes", the 8 bytes of the
\* magic and of the count of indices, and one index.
Scale(magic) ==
  I32(3) \o I32(1) \o F64(1) \o <<3>> \o Yes \o Fill(4, 32)
         \o I32(magic) \o I32(1) \o I32(1)

\* A value-label table, then one whose magic is 5.
BufBadMagic ==
  Hdr(GoodSignature, 0, 1, 100) \o Field(0, 88) \o Scale(4) \o Scale(5)
    \o Finish \o F64(7)

\* Two value-label tables.
BufScales ==
  Hdr(GoodSignature, 0, 1, 100) \o Field(0, 88) \o Scale(4) \o Scale(4)
    \o Finish \o F64(7)

Buffers ==
  {BufPlain, BufPacked, BufBadSignature, BufShort, BufTruncated, BufUnknownTag,
   BufLateField, BufNegativeLabel, BufBackward, BufNegativeExt, BufFewRows,
   BufDisplayCount, BufBadMagic, BufScales}

(***************************************************************************)
(* The state.  One Feeder (buffer, cursor) is shared by the calls of one   *)
(* SavParser.  A call is the promise chain an entry point builds: the jobs *)
(* of Chain(kind), run one at a time from the job queue of the runtime, in *)
(* the order they were queued.  The loops of readFields and readInternal   *)
(* run inside one job (for headers: inside the call itself); the model     *)
(* takes one step per iteration and no other job runs meanwhile (running). *)
(*                                                                         *)
(* A call record: kind, position (the cursor saved on entry), stage (the   *)
(* index of its next job), err and val (how its chain stands: rejected     *)
(* with err, or fulfilled with val), acc (what the running loop has built),*)
(* turn (whether the running loop has made an odd number of iterations: an *)
(* iteration is a step even when it leaves everything else as it was),     *)
(* and for the properties: entered (the loops it entered), fend (the       *)
(* cursor its field loop ended at), istart (the cursor its internal-record *)
(* loop started at) and tags (the record tags that loop read).  last is    *)
(* the most recent completed operation as its caller sees it.              *)
(*                                                                         *)
(* reader is a DataReader whose read is followed cell by cell (see below); *)
(* the read of the rows inside a call of all is one step of its job.       *)
(***************************************************************************)
VARIABLES buffer, cursor, calls, queue, running, last, ops, reader

vars == <<buffer, cursor, calls, queue, running, last, ops, reader>>

\* How many calls of jump and next the user of the Feeder makes.
MaxUserOps == 2

Slots == {1, 2}

Idle ==
  [kind |-> "idle", position |-> 0, stage |-> 0, err |-> NoError, val |-> <<>>,
   acc |-> <<>>, turn |-> 0, entered |-> {}, fend |-> <<>>, istart |-> <<>>,
   tags |-> {}]

\* No DataReader is followed.
NoReader ==
  [pc |-> "none", schema |-> <<>>, position |-> 0, ins |-> <<>>, icur |-> 8,
   log |-> <<>>, rows |-> <<>>, row |-> <<>>, h |-> 0, cell |-> <<>>,
   err |-> NoError]

NoLast ==
  [kind |-> "none", arg |-> 0, entry |-> 0, exit |-> 0, err |-> NoError,
   val |-> <<>>, entered |-> {}, fend |-> <<>>, istart |-> <<>>, tags |-> {},
   sync |-> FALSE]

\* importSheet of a 'sav' file is all on a new Feeder, and one job more: the
\* one that resumes importSheet after its await.
\* promise.finally(cb) takes four jobs: cb itself, the thunk that hands the
\* settled value on, the job that adopts the promise the handler returned,
\* and the one that settles the promise of finally.
Finally == <<"cb", "thunk", "thenable", "resolve">>

Chain(kind) ==
  CASE kind = "meta" -> Finally
    [] kind = "headers" -> <<"syncFields">> \o Finally
    [] kind = "schema" ->
         Finally \o <<"wrap", "readFields", "readInternal">> \o Finally
    [] kind = "all" ->
         Finally \o <<"wrap", "readFields", "readInternal">> \o Finally
                 \o <<"read">> \o Finally
    [] kind = "importSheet" ->
         Finally \o <<"wrap", "readFields", "readInternal">> \o Finally
                 \o <<"read">> \o Finally \o <<"await">>

StageOf(c) == IF c.kind = "idle" THEN "none" ELSE Chain(c.kind)[c.stage]

AllIdle == \A i \in Slots : calls[i].kind = "idle"

Summary(c, cur, sync) ==
  [kind |-> c.kind, arg |-> 0, entry |-> c.position, exit |-> cur, err |-> c.err,
   val |-> c.val, entered |-> c.entered, fend |-> c.fend, istart |-> c.istart,
   tags |-> c.tags, sync |-> sync]

Init ==
  /\ buffer \in Buffers
  /\ cursor = 0
  /\ calls = [i \in Slots |-> Idle]
  /\ queue = <<>>
  /\ running = 0
  /\ last = NoLast
  /\ ops = 0
  /\ reader = NoReader

(***************************************************************************)
(* The user of the Feeder                                                  *)
(***************************************************************************)
JumpArgs == {-1, 0, 4, Len(buffer), Len(buffer) + 1}
NextArgs == {-8, 0, 4, Len(buffer) + 1}

\* What the user sees of a call of jump or next.
Used(kind, arg, r) ==
  /\ cursor' = r.cur
  /\ last' = [NoLast EXCEPT !.kind = kind, !.arg = arg, !.entry = cursor,
                            !.exit = r.cur, !.err = r.err, !.val = Value(r)]
  /\ ops' = ops + 1
  /\ UNCHANGED <<buffer, reader, calls, queue, running>>

UserJump(position) ==
  /\ AllIdle
  /\ ops < MaxUserOps
  /\ \E r \in {jump(Len(buffer), cursor, position)} : Used("jump", position, r)

UserNext(size) ==
  /\ AllIdle
  /\ ops < MaxUserOps
  /\ \E r \in {next(buffer, cursor, size)} : Used("next", size, r)

(***************************************************************************)
(* The entry points: what each does before it returns its promise.         *)
(***************************************************************************)
Called(kind) == [Idle EXCEPT !.kind = kind, !.position = cursor, !.stage = 1]

\* The promise of the executor is settled with r and the cb of its finally
\* is queued.
Entered(i, kind, r) ==
  /\ cursor' = r.cur
  /\ calls' = [calls EXCEPT ![i] =
                 [Called(kind) EXCEPT !.err = r.err, !.val = Value(r)]]
  /\ queue' = Append(queue, i)
  /\ last' = NoLast
  /\ UNCHANGED <<buffer, reader, running, ops>>

\* meta, and the meta that schema and all start with: the position is saved,
\* the cursor jumps to 0 and the executor runs.
Enter(i, kind) ==
  /\ calls[i].kind = "idle"
  /\ running = 0
  /\ \E r \in {Then(jump(Len(buffer), cursor, 0), LAMBDA j :
                  metaExecutor(buffer, j.cur))} : Entered(i, kind, r)

meta(i) == Enter(i, "meta")

schema(i) == Enter(i, "schema")

all(i) == Enter(i, "all")

\* A faulty jump to the fields, which leaves the cursor where it is.
jumpToFieldsNowhere(len, cur) == Ok(cur, <<>>)

\* feeder.jump(176), before the loop of readFields.
jumpToFields(len, cur) == jump(len, cur, HeaderSize)

\* headers after its feeder.jump(176): what the jump throws is thrown by
\* headers itself; otherwise the loop of readFields starts, before any
\* promise exists.
HeadersEntered(i, j) ==
  IF Failed(j)
    THEN /\ last' = Summary([Called("headers") EXCEPT !.err = j.err], cursor, TRUE)
         /\ UNCHANGED <<cursor, calls, running>>
    ELSE /\ cursor' = j.cur
         /\ calls' = [calls EXCEPT ![i] =
                        [Called("headers") EXCEPT !.entered = {"fields"}]]
         /\ running' = i
         /\ last' = NoLast

headers(i) ==
  /\ calls[i].kind = "idle"
  /\ running = 0
  /\ \E j \in {jumpToFields(Len(buffer), cursor)} : HeadersEntered(i, j)
  /\ UNCHANGED <<buffer, reader, queue, ops>>

(***************************************************************************)
(* The jobs                                                                *)
(***************************************************************************)
IsJob(i, stage) ==
  /\ running = 0
  /\ queue # <<>>
  /\ Head(queue) = i
  /\ StageOf(calls[i]) = stage

\* The call's promise settles: its caller sees the outcome and the cursor.
Settle(i, c) ==
  /\ calls' = [calls EXCEPT ![i] = Idle]
  /\ last' = Summary(c, cursor', FALSE)

Advance(i, c) ==
  /\ calls' = [calls EXCEPT ![i] = [c EXCEPT !.stage = @ + 1]]
  /\ last' = last

\* The promise of a job is settled as c stands and its reaction is queued;
\* the promise of the last job is the one the caller holds.
Pass(i, c) ==
  IF c.stage = Len(Chain(c.kind))
    THEN /\ Settle(i, c)
         /\ queue' = Tail(queue)
    ELSE /\ Advance(i, c)
         /\ queue' = Append(Tail(queue), i)

\* The chain as it stands when a job has thrown err.
Thrown(c, err) == [c EXCEPT !.err = err, !.val = <<>>, !.acc = <<>>]

\* A faulty restore, which leaves the cursor where it is.
restoreNothing(len, cur, position) == Ok(cur, <<>>)

\* The restore of a finally: () => feeder.jump(position).
restore(len, cur, position) == jump(len, cur, position)

\* cb has run with result j.  When it threw, the promise of finally is
\* rejected at once with what it threw: the three jobs after cb do not run.
Restored(i, c, j) ==
  /\ cursor' = j.cur
  /\ IF Failed(j)
       THEN Pass(i, [Thrown(c, j.err) EXCEPT !.stage = @ + 3])
       ELSE /\ Advance(i, c)
            /\ queue' = Tail(queue) \o <<i, i>>
  /\ UNCHANGED <<buffer, reader, running, ops>>

Callback(i) ==
  /\ IsJob(i, "cb")
  /\ \E j \in {restore(Len(buffer), cursor, calls[i].position)} :
       Restored(i, calls[i], j)

Thunk(i) ==
  /\ IsJob(i, "thunk")
  /\ Advance(i, calls[i])
  /\ queue' = Tail(queue)
  /\ UNCHANGED <<buffer, reader, cursor, running, ops>>

Thenable(i) ==
  /\ IsJob(i, "thenable")
  /\ Advance(i, calls[i])
  /\ queue' = Append(Tail(queue), i)
  /\ UNCHANGED <<buffer, reader, cursor, running, ops>>

Resolve(i) ==
  /\ IsJob(i, "resolve")
  /\ UNCHANGED <<buffer, reader, cursor, running, ops>>
  /\ Pass(i, calls[i])

\* A then-callback of a rejected promise is not called: the job hands the
\* rejection on.
Rejected(c) == c.err.kind # "none"

\* (meta) => ({meta: meta})
Wrap(i) ==
  /\ IsJob(i, "wrap")
  /\ UNCHANGED <<buffer, reader, cursor, running, ops>>
  /\ Pass(i, IF Rejected(calls[i]) THEN calls[i]
             ELSE [calls[i] EXCEPT !.val = [meta |-> calls[i].val]])

\* A job starts a loop: the job stays the running one until its loop ends.
Loop(i, c) ==
  /\ calls' = [calls EXCEPT ![i] = c]
  /\ last' = last
  /\ running' = i
  /\ queue' = Tail(queue)

\* The job of readFields after its feeder.jump(176).
FieldsStarted(i, c, j) ==
  IF Rejected(c) \/ Failed(j)
    THEN /\ UNCHANGED <<cursor, running>>
         /\ Pass(i, IF Rejected(c) THEN c ELSE Thrown(c, j.err))
    ELSE /\ cursor' = j.cur
         /\ Loop(i, [c EXCEPT !.acc = <<>>, !.entered = @ \cup {"fields"}])

StartFields(i) ==
  /\ IsJob(i, "readFields")
  /\ \E j \in {jumpToFields(Len(buffer), cursor)} :
       FieldsStarted(i, calls[i], j)
  /\ UNCHANGED <<buffer, reader, ops>>

\* The running job ends as c stands and its reaction is queued.
EndLoop(i, c) ==
  /\ Advance(i, [c EXCEPT !.turn = 0])
  /\ running' = 0
  /\ queue' = Append(queue, i)

\* The loop goes on.
Again(i, c) ==
  /\ calls' = [calls EXCEPT ![i] = [c EXCEPT !.turn = 1 - @]]
  /\ last' = last
  /\ UNCHANGED <<running, queue>>

\* headers: {...}; schema: {...partial, headers: fields}
WithHeaders(c, fields) ==
  IF c.kind = "headers" THEN fields ELSE [meta |-> c.val.meta, headers |-> fields]

\* One iteration of the loop of readFields has given r.  What the loop
\* throws inside headers is thrown by headers: no promise is made and no
\* finally is attached.
FieldsIterated(i, c, r) ==
  /\ cursor' = r.cur
  /\ IF Failed(r) /\ c.kind = "headers"
       THEN /\ calls' = [calls EXCEPT ![i] = Idle]
            /\ last' = Summary(Thrown(c, r.err), r.cur, TRUE)
            /\ running' = 0
            /\ queue' = queue
     ELSE IF Failed(r)
       THEN EndLoop(i, Thrown(c, r.err))
     ELSE IF r.done
       THEN EndLoop(i, [c EXCEPT !.val = WithHeaders(c, r.val), !.acc = <<>>,
                                 !.fend = <<r.cur>>])
     ELSE Again(i, [c EXCEPT !.acc = r.val])
  /\ UNCHANGED <<buffer, reader, ops>>

FieldsIter(i) ==
  /\ running = i
  /\ StageOf(calls[i]) \in {"syncFields", "readFields"}
  /\ \E r \in {readFieldsIter(buffer, cursor, calls[i].acc)} :
       FieldsIterated(i, calls[i], r)

\* The loop of readInternal starts where the cursor is.
StartInternal(i) ==
  /\ IsJob(i, "readInternal")
  /\ UNCHANGED <<buffer, reader, cursor, ops>>
  /\ IF Rejected(calls[i])
       THEN /\ Pass(i, calls[i])
            /\ UNCHANGED running
       ELSE Loop(i, [calls[i] EXCEPT !.acc = EmptyInternal, !.istart = <<cursor>>,
                                     !.entered = @ \cup {"internal"}])

\* The record tags the loop has read, with the one of this iteration.
Tagged(c, t) ==
  CHOOSE d \in {IF Failed(x) THEN c ELSE [c EXCEPT !.tags = @ \cup {x.val}] : x \in {t}} :
    TRUE

\* One iteration of the loop of readInternal has given r.
InternalIterated(i, c, r) ==
  /\ cursor' = r.cur
  /\ IF Failed(r)
       THEN EndLoop(i, Thrown(c, r.err))
     ELSE IF r.done
       THEN EndLoop(i, [c EXCEPT !.val = [meta |-> c.val.meta,
                                          headers |-> c.val.headers,
                                          internal |-> r.val],
                                 !.acc = <<>>])
     ELSE Again(i, [c EXCEPT !.acc = r.val])
  /\ UNCHANGED <<buffer, reader, ops>>

InternalIter(i) ==
  /\ running = i
  /\ StageOf(calls[i]) = "readInternal"
  /\ \E c \in {Tagged(calls[i], nextInt32(buffer, cursor))} :
       \E r \in {readInternalIter(buffer, cursor, calls[i].acc)} :
         InternalIterated(i, c, r)

\* The job of the rows: read has given r.
Rows(i, c, r) ==
  /\ cursor' = r.cur
  /\ Pass(i, IF Failed(r)
               THEN [Thrown(c, r.err) EXCEPT !.entered = @ \cup {"rows"}]
               ELSE [c EXCEPT !.val = [meta |-> c.val.meta,
                                       headers |-> c.val.headers,
                                       internal |-> c.val.internal,
                                       rows |-> r.val],
                              !.entered = @ \cup {"rows"}])

\* (schema) => ({...schema, rows: new DataReader(schema, feeder).read()})
Read(i) ==
  /\ IsJob(i, "read")
  /\ IF Rejected(calls[i])
       THEN /\ cursor' = cursor
            /\ Pass(i, calls[i])
       ELSE \E r \in {read(buffer, calls[i].val, cursor)} : Rows(i, calls[i], r)
  /\ UNCHANGED <<buffer, reader, running, ops>>

Job(i) ==
  \/ Callback(i)
  \/ Thunk(i)
  \/ Thenable(i)
  \/ Resolve(i)
  \/ Wrap(i)
  \/ StartFields(i)
  \/ FieldsIter(i)
  \/ StartInternal(i)
  \/ InternalIter(i)
  \/ Read(i)

\* Sequential use: an entry point is called when no call is in flight.
Next ==
  \/ \E position \in JumpArgs : UserJump(position)
  \/ \E size \in NextArgs : UserNext(size)
  \/ AllIdle /\ meta(1)
  \/ AllIdle /\ headers(1)
  \/ AllIdle /\ schema(1)
  \/ AllIdle /\ all(1)
  \/ \E i \in Slots : Job(i)

Spec == Init /\ [][Next]_vars

(***************************************************************************)
(* The DataReader by itself.  The files below differ in what decides how a *)
(* cell is decoded: the compression flag, the fields, the endianness of    *)
(* the machine-integer record and the bytes of the case data.  The reader  *)
(* is the one all constructs for such a file on a fresh Feeder: its schema *)
(* is the schema parsed from the file, and the cursor has been restored to *)
(* 0 by the finally of schema.  Its read is followed one cell at a time.   *)
(*                                                                         *)
(* reader: pc (where read stands: "new", "row", "cell", "end", then "done" *)
(* or "failed"), schema and position (as constructed), ins, icur and log   *)
(* (as in rd), rows (the rows built), row and h (the entries of the row    *)
(* being built and the index of its next field), err (what read threw),    *)
(* and for the properties cell: the most recent call of readCell.          *)
(***************************************************************************)
\* How many cases the files of the reader declare.
MaxCases == 2

Compressions == {0, 1, 2}

\* The machine-integer record with its endianness.
Integer(endianness) ==
  Ext(3, 4, 8, I32(1) \o I32(0) \o I32(0) \o I32(-1) \o I32(1) \o I32(1)
                 \o I32(endianness) \o I32(65001))

Integers == {<<>>, Integer(1), Integer(2)}

\* Two numbers; a string of 8 and a number; a number and a string of 16
\* with its continuation record; a string of 9 with its continuation
\* record and a string of 8; a number and a string of 8 of the same name.
FieldLists ==
  {Field(0, 65) \o Field(0, 66),
   Field(8, 65) \o Field(0, 66),
   Field(0, 65) \o Field(16, 66) \o Field(-1, 32),
   Field(9, 65) \o Field(-1, 32) \o Field(8, 66),
   Field(0, 65) \o Field(8, 65)}

Biases == {100, 1}

\* The file up to its case data.
Dictionaries ==
  UNION {{Hdr(GoodSignature, compression, MaxCases, bias) \o fields \o integer
            \o Finish :
            compression \in Compressions, fields \in FieldLists} :
           integer \in Integers, bias \in Biases}

FirstCodes == {0, 1, 101, 251, 252, 253, 254, 255}
Codes == {0, 101, 253, 254, 255}
LastCodes == {253, 255}

\* The case data: 8 bytes that are an instruction block when the file is
\* compressed, then four more blocks.
CaseData ==
  {<<c1, c2, 0, c3, c4, 0, 0, 0>> \o Hello \o F64(7)
      \o <<255, 101, 254, 253, 0, 0, 0, 0>> \o Hello :
     c1 \in FirstCodes, c2 \in Codes, c3 \in Codes, c4 \in LastCodes}

NewDataReader(parsed, position) ==
  [NoReader EXCEPT !.pc = "new", !.schema = parsed, !.position = position]

InitData ==
  /\ \E dictionary \in Dictionaries :
       \E s \in {schemaAlone(dictionary)} :
         \E data \in CaseData :
           /\ ~Failed(s)
           /\ buffer = dictionary \o data
           /\ reader = NewDataReader(s.val, 0)
  /\ cursor = 0
  /\ calls = [i \in Slots |-> Idle]
  /\ queue = <<>>
  /\ running = 0
  /\ last = NoLast
  /\ ops = 0

\* The reader as the operators of DataReader take it.
Rd == [cur |-> cursor, ins |-> reader.ins, icur |-> reader.icur, log |-> reader.log]

\* The reader after an operator has left it as rd.
Left(rd) == [reader EXCEPT !.ins = rd.ins, !.icur = rd.icur, !.log = rd.log]

DataFailed(rdr, err) == [rdr EXCEPT !.pc = "failed", !.err = err]

\* After a row, or before the first: the next row, or the end of read.
Onward(rdr) ==
  [rdr EXCEPT !.pc = IF Len(rdr.rows) < rdr.schema.meta.cases THEN "row" ELSE "end"]

\* read up to its first row: the jump to the case data and new Array(cases).
DataStarted(j) ==
  /\ cursor' = j.cur
  /\ reader' = IF Failed(j) THEN DataFailed(reader, j.err) ELSE Onward(reader)

DataStart ==
  /\ reader.pc = "new"
  /\ \E j \in {Then(jump(Len(buffer), cursor, reader.schema.internal.finished[1]),
                 LAMBDA to : NewArray(reader.schema.meta.cases, to.cur, to))} :
       DataStarted(j)
  /\ UNCHANGED <<buffer, calls, queue, running, last, ops>>

\* A row whose cells are read: the Map of its entries joins the rows.
RowRead(rdr) == Onward([rdr EXCEPT !.rows = Append(@, rdr.row), !.row = <<>>, !.h = 0])

\* The callback of map up to the first cell of its row.
DataRow ==
  /\ reader.pc = "row"
  /\ reader' =
       CHOOSE y \in {IF x.schema.headers = <<>> THEN RowRead(x)
                     ELSE [x EXCEPT !.pc = "cell", !.h = 1] :
                       x \in {[reader EXCEPT
                                 !.log = Append(@, <<"Row", Len(reader.rows)>>),
                                 !.row = <<>>]}} : TRUE
  /\ UNCHANGED <<buffer, cursor, calls, queue, running, last, ops>>

\* What is kept of a call of readCell: the field, the reader before it and
\* what it gave.
CellOf(header, c) == [header |-> header, rd |-> Rd, got |-> c]

\* readCell has given c for the field header.
CellRead(header, c) ==
  /\ cursor' = c.rd.cur
  /\ reader' =
       CHOOSE y \in {IF Failed(c) THEN DataFailed(x, c.err)
                     ELSE IF x.h = Len(x.schema.headers)
                       THEN RowRead([x EXCEPT !.row = withEntry(@, header, c.val)])
                     ELSE [x EXCEPT !.row = withEntry(@, header, c.val),
                                    !.h = @ + 1] :
                       x \in {[Left(c.rd) EXCEPT !.cell = <<CellOf(header, c)>>]}} :
         TRUE

DataCell ==
  /\ reader.pc = "cell"
  /\ \E header \in {reader.schema.headers[reader.h]} :
       \E c \in {readCell(buffer, Rd, reader.schema, header)} : CellRead(header, c)
  /\ UNCHANGED <<buffer, calls, queue, running, last, ops>>

\* The end of read: the jump back to the position of the constructor.
DataEnded(j) ==
  /\ cursor' = j.cur
  /\ reader' = IF Failed(j) THEN DataFailed(reader, j.err)
               ELSE [reader EXCEPT !.pc = "done"]

DataEnd ==
  /\ reader.pc = "end"
  /\ \E j \in {jump(Len(buffer), cursor, reader.position)} : DataEnded(j)
  /\ UNCHANGED <<buffer, calls, queue, running, last, ops>>

NextData ==
  \/ DataStart
  \/ DataRow
  \/ DataCell
  \/ DataEnd

SpecData == InitData /\ [][NextData]_vars

(***************************************************************************)
(* importSheet for the type 'sav': parser.all on a new Feeder over the     *)
(* file, and when its promise has been fulfilled, each row as an object.   *)
(* The readers of the other types are libraries outside this source.       *)
(* An object is the function from its keys to their values.                *)
(***************************************************************************)
Keys(m) == {m[n].k : n \in DOMAIN m}

\* A faulty conversion, which leaves out the last entry.
fromEntriesButLast(m) ==
  [k \in Keys(SubSeq(m, 1, Len(m) - 1)) |->
     m[CHOOSE n \in 1..(Len(m) - 1) : m[n].k = k /\ \A h \in (n + 1)..(Len(m) - 1) : m[h].k # k].v]

\* Object.fromEntries(map): each entry of the Map in turn sets the property
\* of its key.
fromEntries(m) ==
  [k \in Keys(m) |->
     m[CHOOSE n \in DOMAIN m : m[n].k = k /\ \A h \in (n + 1)..Len(m) : m[h].k # k].v]

\* .rows.map((map) => Object.fromEntries(map))
Objects(rows) == [n \in 1..Len(rows) |-> fromEntries(rows[n])]

\* case ImportTypes.SAV, up to its await: new SavParser(), new Feeder(file)
\* (a Feeder whose cursor is 0) and parser.all(feeder).
importSheet(i) == cursor = 0 /\ Enter(i, "importSheet")

\* importSheet after its await: it throws what rejected the promise of all,
\* or returns the objects of the rows.
Await(i) ==
  /\ IsJob(i, "await")
  /\ UNCHANGED <<buffer, reader, cursor, running, ops>>
  /\ Pass(i, IF Rejected(calls[i]) THEN calls[i]
             ELSE [calls[i] EXCEPT !.val = Objects(calls[i].val.rows)])

NextImport ==
  \/ AllIdle /\ importSheet(1)
  \/ \E i \in Slots : Job(i)
  \/ \E i \in Slots : Await(i)

SpecImport == Init /\ [][NextImport]_vars

(***************************************************************************)
(* Dictionaries built record by record: the field records differ in their  *)
(* type code, label block and missing-value block, the internal records in *)
(* their subtype, element size, element count and label lengths.  all is   *)
(* called on a new Feeder over each of them.                               *)
(***************************************************************************)
\* The bytes 1, 2, ..., n.
Counted(n) == [i \in 1..n |-> i % 256]

\* n rounded up to a multiple of m, for n >= 0.
Padded(n, m) == ((n + m - 1) \div m) * m

\* The label block of a file that declares length characters of label: the
\* length, the text, and spaces up to a multiple of 4.
LabelBlock(length) ==
  I32(length) \o Fill(Max(length, 0), 97)
              \o Fill(Padded(Max(length, 0), 4) - Max(length, 0), 32)

\* A field record: its 28 bytes, label block and missing-value block.
FieldRecord(code, c, labeled, label, missings) ==
  I32(2) \o I32(code) \o I32(labeled) \o I32(missings) \o I32(0) \o I32(0)
         \o Name8(c) \o label \o Counted(8 * Abs(missings))

LabelLengths == {-5, -4, -1, 0, 1, 4, 5}

MissingCounts == {-3, -2, -1, 1, 2, 3}

TypeCodes == {0, 16, -1}

\* The field records of a dictionary.
FieldParts ==
  {FieldRecord(0, 65, 1, LabelBlock(length), 0) \o Field(0, 66) :
     length \in LabelLengths}
    \cup {FieldRecord(code, 65, 0, <<>>, missings) \o Field(0, 66) :
            code \in {0, 16}, missings \in MissingCounts}
    \cup {FieldRecord(0, 65, 1, LabelBlock(5), -3)}
    \cup {Field(a, 65) : a \in TypeCodes}
    \cup {Field(a, 65) \o Field(b, 66) : a, b \in TypeCodes}
    \cup {Field(a, 65) \o Field(b, 66) \o Field(c, 67) : a, b, c \in TypeCodes}

Subtypes == {3, 4, 11, 13, 14, 21, 99}
ElementSizes == {-4, 1, 4, 8}
\* No product of a size and a count is -16: a record whose payload ends on
\* its own tag is read again without end (BufBackward).
ElementCounts == {-3, 0, 3, 5, 6, 8}

Extensions ==
  {Ext(subcode, length, count, Counted(Max(length * count, 0))) :
     subcode \in Subtypes, length \in ElementSizes, count \in ElementCounts}

\* A level of a value-label table whose label has length characters: the
\* key, the length byte, and the text padded to a multiple of 8 with it.
Level(key, length) ==
  F64(key) \o <<length>> \o Fill(length, 97) \o Fill(Padded(length + 1, 8) - (length + 1), 32)

LevelLengths == {0, 3, 7, 8, 127, 128, 200, 255}

\* A value-label table of two levels, for the variable 1.
Levels(length) ==
  I32(3) \o I32(2) \o Level(1, length) \o Level(2, 3) \o I32(4) \o I32(1) \o I32(1)

\* Two document lines.
Documents == I32(6) \o I32(2) \o Fill(80, 100) \o Fill(80, 101)

\* The text of a long-string-width record: A=8 and B=16, each pair ended by
\* a tab; the same without the last tab; A=24 and a tab.
WidthTexts ==
  {<<65, 61, 56, 9, 66, 61, 49, 54, 9>>, <<65, 61, 56, 9, 66, 61, 49, 54>>,
   <<65, 61, 50, 52, 9>>}

\* The text of a long-name record: A=a and B=b; A=c.
NameTexts == {<<65, 61, 97, 9, 66, 61, 98>>, <<65, 61, 99>>}

\* The records of subtype 13 and 14 that hold these texts, one byte an
\* element.
TextRecords ==
  {Ext(14, 1, Len(text), text) : text \in WidthTexts}
    \cup {Ext(13, 1, Len(text), text) : text \in NameTexts}

\* The records after the fields, the terminator among them.
InternalParts ==
  {e \o Finish : e \in Extensions}
    \cup {Levels(length) \o Finish : length \in LevelLengths}
    \cup {Documents \o a \o Scale(4) \o b \o Documents \o Finish \o c :
            a \in {Ext(99, 1, 1, <<1>>), Ext(11, 4, 3, Counted(12))},
            b \in {Ext(99, 1, 1, <<2>>), Ext(11, 4, 3, Counted(12))},
            c \in {<<>>, Finish, Documents}}
    \cup {Finish \o e \o Finish : e \in {Scale(4), I32(5)}}
    \cup {a \o b \o Finish : a, b \in TextRecords}

\* A name-map record whose payload ends 8 bytes before the buffer starts,
\* in a buffer whose last 8 bytes are a terminator.
BufZeroStart ==
  Hdr(GoodSignature, 0, 1, 100) \o Field(0, 65) \o Ext(13, -232, 1, <<>>)
    \o F64(7) \o Finish

RecordBuffers ==
  {Hdr(GoodSignature, 0, 1, 100) \o f \o Finish \o F64(7) : f \in FieldParts}
    \cup {Hdr(GoodSignature, 0, 1, 100) \o Field(0, 65) \o r \o F64(7) :
            r \in InternalParts}
    \cup {BufZeroStart}

InitRecords ==
  /\ buffer \in RecordBuffers
  /\ cursor = 0
  /\ calls = [i \in Slots |-> Idle]
  /\ queue = <<>>
  /\ running = 0
  /\ last = NoLast
  /\ ops = 0
  /\ reader = NoReader

NextRecords ==
  \/ AllIdle /\ all(1)
  \/ \E i \in Slots : Job(i)

SpecRecords == InitRecords /\ [][NextRecords]_vars

(***************************************************************************)
(* Overlapping use: schema and all are called while another call is in     *)
(* flight, between any two jobs.                                           *)
(***************************************************************************)
NextConc ==
  \/ \E i \in Slots : schema(i)
  \/ \E i \in Slots : all(i)
  \/ \E i \in Slots : Job(i)

SpecConc == Init /\ [][NextConc]_vars

(***************************************************************************)
(* Progress: the runtime runs a queued job, and a running loop takes its   *)
(* next iteration.                                                         *)
(***************************************************************************)
SpecLive == Spec /\ WF_vars(Next)

(***************************************************************************)
(* The properties                                                          *)
(***************************************************************************)
EntryPoints == {"meta", "headers", "schema", "all"}

\* The most recent operation is a call of an entry point that has thrown or
\* whose promise has settled.
Completed == last.kind \in EntryPoints

\* A position of the buffer: what a ByteCursor of the specification holds.
Positions == 0..Len(buffer)

\* A valid buffer: the full read, by itself, succeeds on it.
Valid(buf) == ~Failed(Alone("all", buf))

\* C1: whenever a call of meta, headers, schema or all fails (throws or
\* rejects), the cursor after the failure is the cursor at the entry to the
\* call.
C1_FailureRestoresCursor ==
  (Completed /\ Rejected(last)) => last.exit = last.entry

\* C2: on a valid buffer, from any position of the buffer and after any
\* sequence of sequential calls of the entry points, the cursor after each
\* completed call is the cursor before it.
C2_CursorUnchanged ==
  (Valid(buffer) /\ Completed /\ last.entry \in Positions)
    => last.exit = last.entry

\* The full read completed on a valid buffer from the end of the buffer,
\* after a jump of the user.
C2_Witness ==
  /\ Valid(buffer)
  /\ last.kind = "all"
  /\ ops > 0
  /\ last.entry = Len(buffer)
  /\ last.exit = Len(buffer)

\* The row of case k as the file stores it without compression and with
\* numeric fields only: cell j is the k-th group's j-th 8 bytes after the
\* case-data start.
StoredRow(buf, parsed, k) ==
  [j \in 1..Len(parsed.headers) |->
     [k |-> parsed.headers[j].name,
      v |-> Num(getFloat64(buf, parsed.internal.finished[1]
                                  + 8 * ((k - 1) * Len(parsed.headers) + (j - 1)),
                           LittleEndian(parsed)))]]

\* Stored without compression, every field numeric.
PlainNumeric(parsed) ==
  /\ parsed.meta.compression = 0
  /\ \A j \in 1..Len(parsed.headers) : parsed.headers[j].code = 0

\* The row of case k: the last of the first k rows decoded from the
\* case-data start.
CaseRow(buf, parsed, k) ==
  readRows(buf, NewReader(parsed.internal.finished[1]), parsed, k, <<>>).val[k]

\* C3: when all succeeds, its rows are as many as the case count of the
\* header, and row k is the row of case k.
C3_RowsAreTheCases ==
  (last.kind = "all" /\ ~Rejected(last)) =>
    /\ Len(last.val.rows) = last.val.meta.cases
    /\ \A k \in 1..Len(last.val.rows) :
         /\ last.val.rows[k] = CaseRow(buffer, last.val, k)
         /\ PlainNumeric(last.val) => last.val.rows[k] = StoredRow(buffer, last.val, k)

\* all has succeeded with two rows that differ.
C3_Witness ==
  /\ last.kind = "all"
  /\ ~Rejected(last)
  /\ last.val.meta.cases = 2
  /\ Len(last.val.rows) = 2
  /\ last.val.rows[1] # last.val.rows[2]

\* The first 4 bytes of the buffer are not the signature.
WrongSignature == SubSeq(buffer, 1, Min(4, Len(buffer))) # Signature

SignatureMismatch ==
  /\ last.err.kind = "File is not a sav."
  /\ last.val = <<>>
  /\ last.entered = {}

\* C4 as stated: when the first 4 bytes differ from the signature, meta,
\* schema and all fail with the signature mismatch, deliver nothing and
\* enter neither the field loop nor the internal-record loop.
C4_WrongSignatureFails ==
  (WrongSignature /\ last.kind \in {"meta", "schema", "all"}
     /\ last.entry \in Positions)
    => SignatureMismatch

\* C4 for a buffer that holds the 176 bytes of the header.
C4_WrongSignatureFailsWithHeader ==
  (WrongSignature /\ Len(buffer) >= HeaderSize
     /\ last.kind \in {"meta", "schema", "all"} /\ last.entry \in Positions)
    => SignatureMismatch

\* all has failed on a buffer of 256 bytes with a wrong signature.
C4_Witness ==
  /\ WrongSignature
  /\ Len(buffer) >= HeaderSize
  /\ last.kind = "all"
  /\ last.entry \in Positions
  /\ Rejected(last)

\* C5: every call of an entry point ends: whenever a call is in flight, a
\* state follows in which none is.
C5_EveryCallEnds == (~AllIdle) ~> AllIdle

\* The bytes [from, to) of the buffer; <<-1>> when the buffer has no such
\* bytes.
Bytes(buf, from, to) ==
  IF to <= from THEN <<>>
  ELSE IF from >= 0 /\ to <= Len(buf) THEN SubSeq(buf, from + 1, to)
  ELSE <<-1>>

\* C6: jump(p) fails with the out-of-bounds error exactly when p < 0 or
\* p > length and otherwise sets the cursor to p; next(n) fails with the
\* end-of-file error exactly when fewer than n bytes remain and otherwise
\* returns the bytes [cursor, cursor + n) and advances the cursor by n; a
\* failed jump or next leaves the cursor where it was.
C6_CursorContract ==
  /\ last.kind = "jump" =>
       IF last.arg < 0 \/ last.arg > Len(buffer)
         THEN last.err = OobError /\ last.exit = last.entry
         ELSE ~Rejected(last) /\ last.exit = last.arg
  /\ last.kind = "next" =>
       IF Len(buffer) - last.entry < last.arg
         THEN last.err = EofError /\ last.exit = last.entry
         ELSE /\ ~Rejected(last)
              /\ last.val = Bytes(buffer, last.entry, last.entry + last.arg)
              /\ last.exit = last.entry + last.arg

\* What the caller got from the most recent call.
Yielded == [err |-> last.err, val |-> last.val]

\* C8: what a call of an entry point yields is what the same entry point
\* yields by itself on a fresh cursor over the same bytes, whatever calls of
\* the entry points came before it on the same cursor.  (The user calls
\* neither jump nor next: the cursor at entry is one the earlier calls left.)
C8_OutcomeOfBytesOnly ==
  (Completed /\ ops = 0) => Yielded = Alone(last.kind, buffer)

KnownTags == {ScaleTag, DocumentTag, ExtensionTag, FinishTag}

UnknownTagError(c) ==
  /\ c.err.kind = "Internal Code Expected : [3, 6, 7, 999]"
  /\ c.err.actual[1] \in c.tags \ KnownTags
  /\ c.val = <<>>

\* C9: once the internal-record loop of a call has read a tag other than 3,
\* 6, 7 and 999, the loop has ended, and the call stands and ends rejected
\* with the error that names the allowed tags and the tag read; it has no
\* value, neither schema nor rows.
C9_UnknownTagIsFatal ==
  /\ \A i \in Slots :
       calls[i].tags \ KnownTags # {} => running # i /\ UnknownTagError(calls[i])
  /\ last.tags \ KnownTags # {} => UnknownTagError(last)

\* all has ended after its internal-record loop read the tag 5.
C9_Witness == last.kind = "all" /\ 5 \in last.tags

KnownSubtypes == {3, 4, 11, 13, 14, 21}

\* The bytes at cur are the 16 bytes that open an extension record of a
\* subtype that is not known.
UnknownExtensionAt(cur) ==
  /\ cur >= 0
  /\ cur + 16 <= Len(buffer)
  /\ getInt32(buffer, cur) = ExtensionTag
  /\ getInt32(buffer, cur + 4) \notin KnownSubtypes

ElementSize(cur) == getInt32(buffer, cur + 8)
ElementCount(cur) == getInt32(buffer, cur + 12)

\* The element-size x element-count bytes after the 16 are in the buffer.
PayloadAvailable(cur) ==
  /\ ElementSize(cur) * ElementCount(cur) >= 0
  /\ cur + 16 + ElementSize(cur) * ElementCount(cur) <= Len(buffer)

Payload(cur) ==
  SubSeq(buffer, cur + 17, cur + 16 + ElementSize(cur) * ElementCount(cur))

RECURSIVE Concat(_)
Concat(chunks) == IF chunks = <<>> THEN <<>> ELSE Head(chunks) \o Concat(Tail(chunks))

\* The iteration did not fail, and the opaque list after it is the list
\* before it with one more entry: the subtype, with count records of size
\* bytes each that together are the payload.
Captured(before, after, cur) ==
  /\ ~Rejected(after)
  /\ after.acc.unrecognized # <<>>
  /\ after.acc.unrecognized
       = Append(before.acc.unrecognized,
                after.acc.unrecognized[Len(after.acc.unrecognized)])
  /\ after.acc.unrecognized[Len(after.acc.unrecognized)][1] = getInt32(buffer, cur + 4)
  /\ Len(after.acc.unrecognized[Len(after.acc.unrecognized)][2]) = ElementCount(cur)
  /\ \A k \in 1..ElementCount(cur) :
       Len(after.acc.unrecognized[Len(after.acc.unrecognized)][2][k]) = ElementSize(cur)
  /\ Concat(after.acc.unrecognized[Len(after.acc.unrecognized)][2]) = Payload(cur)

\* The internal-record loop of call i is about to read an extension record
\* of an unknown subtype whose payload is available.
AtUnknownExtension(i) ==
  /\ running = i
  /\ StageOf(calls[i]) = "readInternal"
  /\ UnknownExtensionAt(cursor)
  /\ PayloadAvailable(cursor)

\* C10 as stated: an extension record of an unknown subtype whose payload
\* is available is no error: the iteration that reads it appends it to the
\* opaque list as the subtype with its records, which together are the
\* payload.
C10_UnknownExtensionCaptured ==
  [][\A i \in Slots :
       AtUnknownExtension(i) => Captured(calls[i], calls'[i], cursor)]_vars

\* C10 for an element size and an element count that are not negative.
C10_UnknownExtensionCapturedNonNegative ==
  [][\A i \in Slots :
       (AtUnknownExtension(i) /\ ElementSize(cursor) >= 0
          /\ ElementCount(cursor) >= 0)
         => Captured(calls[i], calls'[i], cursor)]_vars

\* The loop of a call goes on with an opaque record of two elements of 4
\* bytes in its list.
C10_Witness ==
  \E i \in Slots :
    /\ running = i
    /\ StageOf(calls[i]) = "readInternal"
    /\ calls[i].acc.unrecognized = <<<<99, <<<<1, 2, 3, 4>>, <<5, 6, 7, 8>>>>>>>>

\* The internal-record loop of the most recent call started at a position
\* other than the one its own field loop ended at: one the other call left.
ForeignStart == last.istart # <<>> /\ last.istart # last.fend

\* C7: with calls of schema and all that overlap, a call yields something
\* else than it yields by itself only when its internal-record loop started
\* from a position the other call left, or the cursor it was entered at and
\* restores is outside the buffer.
C7_OverlapDiffersByForeignStart ==
  (Completed /\ Yielded # Alone(last.kind, buffer))
    => (ForeignStart \/ last.entry \notin Positions)

\* On a valid buffer a call has ended whose internal-record loop started
\* from a position the other call left: it failed, and by itself it succeeds.
C7_Witness ==
  /\ Valid(buffer)
  /\ last.kind \in {"schema", "all"}
  /\ ForeignStart
  /\ Rejected(last)
  /\ Yielded # Alone(last.kind, buffer)


(***************************************************************************)
(* C11                                                                     *)
(***************************************************************************)
DisplayCountError == "Special code 11 Expected: Length factor of 3"

\* The loop of readInternal of call c has just ended: the cursor is where
\* its last iteration left it.
InternalJustEnded(c) ==
  /\ c.kind \in {"schema", "all"}
  /\ c.stage = 8
  /\ "internal" \in c.entered

\* C11: an error of the parser carries the value observed in the buffer; in
\* particular, when the loop of readInternal has failed on a subtype-11
\* record whose element count is not a multiple of 3, the actual value of
\* the error is that element count (the 4 bytes that end the 12-byte
\* sub-header the cursor has just passed).
C11_DisplayCountReported ==
  \A i \in Slots :
    (InternalJustEnded(calls[i]) /\ calls[i].err.kind = DisplayCountError)
      => calls[i].err.actual = <<getInt32(buffer, cursor - 4)>>

(***************************************************************************)
(* The cells of the DataReader                                             *)
(***************************************************************************)
\* A call of readCell has been made, and the most recent one is Cell.
CellCalled == reader.cell # <<>>
Cell == reader.cell[1]

\* It returned a value.
CellReturned == CellCalled /\ ~Failed(Cell.got)

\* What it added to the log, after its "Cell" entry.
CellLog == SubSeq(Cell.got.rd.log, Len(Cell.rd.log) + 2, Len(Cell.got.rd.log))

\* The arguments of the entries of a log that are of one kind, in order.
Entries(log, what) == SelectSeq(log, LAMBDA e : e[1] = what)
Args(log, what) == [i \in 1..Len(Entries(log, what)) |-> Entries(log, what)[i][2]]
Count(log, what) == Len(Entries(log, what))

\* The bytes the feeder gave it.
Consumed == Cell.got.rd.cur - Cell.rd.cur

Compressed == reader.schema.meta.compression # 0
StringCell == CellCalled /\ Cell.header.code # 0
NumericCell == CellCalled /\ Cell.header.code = 0

\* The 8 bytes of the buffer at an offset.
Eight(off) == Slice(buffer, off, off + 8)

\* The bytes the feeder had given before the entry at index j of the log
\* of the cell: where its cursor stood then.
CursorAt(j) ==
  Cell.rd.cur + 8 * Count(SubSeq(CellLog, 1, j - 1), "block")
              + 8 * Count(SubSeq(CellLog, 1, j - 1), "literal")

(***************************************************************************)
(* C12                                                                     *)
(***************************************************************************)
\* The segments a string cell took: its codes with compression, its raw
\* blocks without.
Segments == IF Compressed THEN Count(CellLog, "code") ELSE Count(CellLog, "raw")

\* C12: a string cell that has been decoded has consumed exactly
\* ceil(width / 8) segments (one instruction code each with compression, 8
\* raw bytes each without), whatever the codes.
C12_StringSegments ==
  (StringCell /\ CellReturned) => Segments = CeilDiv8(Cell.header.code)

(***************************************************************************)
(* C13                                                                     *)
(***************************************************************************)
\* The codes the instruction reader gave the most recent call of readCell.
CellCodes == Args(CellLog, "code")

\* That call was for a numeric field of a compressed file, and the code
\* it was given is c.
NumericCode(c) == NumericCell /\ Compressed /\ CellCodes = <<c>>

\* C13: a numeric cell of a compressed file whose instruction code c is in
\* 1..251 is the number c - bias, and nothing but instructions has been
\* consumed for it: no literal, and of the feeder only the instruction
\* blocks fetched to reach the code.
C13_CodeMinusBias ==
  (NumericCell /\ Compressed /\ Len(CellCodes) = 1 /\ CellCodes[1] \in 1..251) =>
      /\ CellReturned
      /\ Cell.got.val.t = "num"
      /\ IsSmallInt(Cell.got.val.v)
      /\ FloatToInt(Cell.got.val.v)
           = CellCodes[1] - FloatToInt(reader.schema.meta.bias)
      /\ Count(CellLog, "literal") = 0
      /\ Consumed = 8 * Count(CellLog, "block")

\* The code 101 of a block fetched for an earlier cell, with bias 100.
C13_Witness ==
  /\ NumericCode(101)
  /\ Consumed = 0
  /\ FloatToInt(reader.schema.meta.bias) = 100
  /\ FloatToInt(Cell.got.val.v) = 1

(***************************************************************************)
(* C14                                                                     *)
(***************************************************************************)
\* Where n levels that start at off end: a level is its 8-byte value, the
\* byte of the length of its label and the padded label.  A level that is
\* not whole in the buffer ends nowhere (-1).
RECURSIVE LevelsEnd(_, _)
LevelsEnd(off, n) ==
  IF n = 0 THEN off
  ELSE IF off < 0 \/ off + 9 > Len(buffer) THEN -1
  ELSE LevelsEnd(off + 9 + LevelSize(getInt8(buffer, off + 8)), n - 1)

\* The offset of the 8-byte post-levels header of the value-label table
\* whose tag is at off.
ScaleHeader(off) == LevelsEnd(off + 8, getInt32(buffer, off + 4))

\* At off is the tag of a value-label table that is whole up to the end of
\* its post-levels header.
ScaleAt(off) ==
  /\ off >= 0
  /\ off + 8 <= Len(buffer)
  /\ getInt32(buffer, off) = ScaleTag
  /\ getInt32(buffer, off + 4) >= 0
  /\ ScaleHeader(off) >= 0
  /\ ScaleHeader(off) + 8 <= Len(buffer)

MagicError == "Levels read error. Magic value Expected: 4"

\* The loop of readInternal of call i is about to read a value-label table
\* whose header holds a magic value other than 4.
AtBadMagic(i) ==
  /\ running = i
  /\ StageOf(calls[i]) = "readInternal"
  /\ ScaleAt(cursor)
  /\ getInt32(buffer, ScaleHeader(cursor)) # 4

\* The call stands rejected with the magic mismatch, the magic value read
\* as its actual value; its loop has ended, and it has neither a schema nor
\* a partial list of tables.
MagicMismatch(c, magic) ==
  /\ c.err.kind = MagicError
  /\ c.err.actual = <<magic>>
  /\ c.val = <<>>
  /\ c.acc = <<>>

\* C14: the iteration that reads a value-label table whose post-levels
\* header holds a magic value other than 4 fails the parse with the magic
\* mismatch, and no table of that record joins the schema: the loop ends
\* and the call has no value.
C14_BadMagicIsFatal ==
  [][\A i \in Slots :
       AtBadMagic(i) =>
         /\ MagicMismatch(calls'[i], getInt32(buffer, ScaleHeader(cursor)))
         /\ running' = 0]_vars

\* all has ended rejected with the magic mismatch of a table of magic 5,
\* after its loop had read a table of magic 4.
C14_Witness ==
  /\ last.kind = "all"
  /\ last.err.kind = MagicError
  /\ last.err.actual = <<5>>
  /\ last.val = <<>>
  /\ ScaleTag \in last.tags

(***************************************************************************)
(* C15                                                                     *)
(***************************************************************************)
\* importSheet has ended, rejected or with a value.
Imported == AllIdle /\ last.kind = "importSheet"

\* The rows of the parser's full read of the buffer.
FullRead == Alone("all", buffer).val.rows

\* The object o holds the entries of the Map m and no other.
HoldsEntries(o, m) ==
  /\ DOMAIN o = {m[n].k : n \in 1..Len(m)}
  /\ \A n \in 1..Len(m) : o[m[n].k] = m[n].v

SegmentsText(off, n) ==
  Concat([k \in 1..n |-> decode(Bytes(buffer, off + 8 * (k - 1), off + 8 * k))])

\* C16: without compression, the value of a string cell of
\* n = ceil(width / 8) segments is the text of the n 8-byte segments at the
\* cursor, decoded and joined in order.
C16_UncompressedString ==
  (StringCell /\ ~Compressed /\ CellReturned) =>
    Cell.got.val = Str(SegmentsText(Cell.rd.cur, CeilDiv8(Cell.header.code)))

(***************************************************************************)
(* C17                                                                     *)
(***************************************************************************)
EndOfRecords == "Unexpected end of records."
NotForStrings == "Default code not supported for strings."

\* The entry of the log of the cell at index j is the last one.
LastEntry(j) == j = Len(CellLog)

\* What the code at index j of the log of a string cell did.
\*   253: the next 8 bytes of the feeder were taken as its literal (or the
\*        feeder had none, and the cell failed at the end of the file);
\*   254: nothing was taken for it;
\*   255: the cell returned null at once;
\*   252 and 1..251: the cell failed with the error of the code.
StringCode(j, code) ==
  CASE code = 253 ->
         IF LastEntry(j) THEN Failed(Cell.got) /\ Cell.got.err = EofError
         ELSE CellLog[j + 1] = <<"literal", CursorAt(j)>>
    [] code = 254 -> ~LastEntry(j) => CellLog[j + 1][1] # "literal"
    [] code = 255 -> LastEntry(j) /\ CellReturned /\ Cell.got.val = Null
    [] code = 252 -> LastEntry(j) /\ Failed(Cell.got) /\ Cell.got.err.kind = EndOfRecords
    [] OTHER -> LastEntry(j) /\ Failed(Cell.got) /\ Cell.got.err.kind = NotForStrings

\* The segment of the code at index j of the log: the text of its literal,
\* or nothing.
Piece(j) == IF CellLog[j][2] = 253 THEN decode(Eight(CellLog[j + 1][2])) ELSE <<>>

\* The indices of the codes in the log of the cell, in order.
CodeAt == SelectSeq([j \in 1..Len(CellLog) |-> j], LAMBDA j : CellLog[j][1] = "code")

\* C17: a string cell of a compressed file is decoded code by code: 253
\* takes the next 8 bytes of the cursor as text, 254 is an empty segment,
\* 255 makes the cell null at once (no code after it is taken: the reader
\* stands right after the 255, where the next cell starts), 252 and 1..251
\* are fatal; a cell that returns a string has taken ceil(width / 8) codes
\* and is its segments joined in order.
C17_CompressedString ==
  (StringCell /\ Compressed) =>
    /\ \A j \in 1..Len(CellLog) :
         /\ CellLog[j][1] = "code" => StringCode(j, CellLog[j][2])
         /\ CellLog[j][1] = "literal" => j > 1 /\ CellLog[j - 1] = <<"code", 253>>
         /\ CellLog[j][1] # "raw"
    /\ Len(CodeAt) <= CeilDiv8(Cell.header.code)
    /\ (CellReturned /\ Cell.got.val # Null) =>
         /\ Len(CodeAt) = CeilDiv8(Cell.header.code)
         /\ Cell.got.val = Str(Concat([k \in 1..Len(CodeAt) |-> Piece(CodeAt[k])]))
    /\ (CellReturned /\ Cell.got.val = Null) =>
         /\ CellLog[Len(CellLog)] = <<"code", 255>>
         /\ Cell.got.rd.ins[Cell.got.rd.icur] = 255

\* A string of two segments whose first code is 255: the cell is null and
\* has taken one code.
C17_Witness ==
  /\ StringCell
  /\ Compressed
  /\ CeilDiv8(Cell.header.code) = 2
  /\ CellCodes = <<255>>
  /\ Cell.got.val = Null

(***************************************************************************)
(* C18                                                                     *)
(***************************************************************************)
TypeMismatch == "Cell code type mismatch"

\* What the code at index j of the log of a numeric cell did.
NumericCodeDid(j, code) ==
  CASE code = 252 -> LastEntry(j) /\ Failed(Cell.got) /\ Cell.got.err.kind = EndOfRecords
    [] code = 254 -> LastEntry(j) /\ Failed(Cell.got) /\ Cell.got.err.kind = TypeMismatch
    [] code = 255 -> LastEntry(j) /\ CellReturned /\ Cell.got.val = Null
    [] code = 253 ->
         IF CursorAt(j) + 8 > Len(buffer)
           THEN LastEntry(j) /\ Failed(Cell.got) /\ Cell.got.err = EofError
           ELSE /\ CellLog[j + 1] = <<"literal", CursorAt(j)>>
                /\ LastEntry(j + 1)
                /\ CellReturned
                /\ Cell.got.val = Num(Reverse(Eight(CursorAt(j))))
    [] OTHER -> TRUE

\* C18: in a numeric cell of a compressed file the codes 252 and 254 are
\* fatal, 255 is null and takes nothing more from the cursor, and 253 is
\* the next 8 bytes of the cursor read least significant byte first,
\* whatever the endianness of the machine-integer record and whatever the
\* compression flag.
C18_NumericCodes ==
  (NumericCell /\ Compressed) =>
    /\ Len(CodeAt) <= 1
    /\ \A k \in 1..Len(CodeAt) : NumericCodeDid(CodeAt[k], CellLog[CodeAt[k]][2])

\* The literal of a code 253, which reads differently from its other end,
\* in a file of compression flag 2 whose machine-integer record declares
\* the endianness 1.
C18_Witness ==
  /\ NumericCode(253)
  /\ CellReturned
  /\ reader.schema.meta.compression = 2
  /\ reader.schema.internal.integer # <<>>
  /\ reader.schema.internal.integer[1].endianness = 1
  /\ Cell.got.val.v # Eight(Cell.got.rd.cur - 8)
  /\ Cell.got.val.v = Reverse(Eight(Cell.got.rd.cur - 8))

(***************************************************************************)
(* C19                                                                     *)
(***************************************************************************)
\* The log of the instruction reader: the blocks it fetched and the codes
\* it returned, since the reader was constructed.
Instructions == SelectSeq(reader.log, LAMBDA e : e[1] \in {"block", "code"})

\* The bytes of a block that are not 0, left to right.
NonZero(bytes) == SelectSeq(bytes, LAMBDA b : b # 0)

\* The codes returned after the block of index j of Instructions and
\* before the next block.
RECURSIVE CodesAfter(_)
CodesAfter(j) ==
  IF j = Len(Instructions) \/ Instructions[j + 1][1] = "block" THEN <<>>
  ELSE <<Instructions[j + 1][2]>> \o CodesAfter(j + 1)

\* The block of index j of Instructions is the one the reader holds.
Held(j) == \A h \in (j + 1)..Len(Instructions) : Instructions[h][1] = "code"

\* C19: the instruction reader never returns 0.  The codes it has returned
\* from a block are the bytes of the block that are not 0, left to right:
\* all of them when a later block has been fetched, and those among the
\* bytes served so far for the block it holds.  The log runs over the cells
\* and rows of the whole read: no cell and no row starts a block.
C19_InstructionReader ==
  Compressed =>
    /\ \A j \in 1..Len(Instructions) :
         /\ Instructions[j][1] = "code" => Instructions[j][2] # 0
         /\ (Instructions[j][1] = "block" /\ ~Held(j)) =>
              CodesAfter(j) = NonZero(Eight(Instructions[j][2]))
         /\ (Instructions[j][1] = "block" /\ Held(j)) =>
              /\ reader.ins = Eight(Instructions[j][2])
              /\ CodesAfter(j) = NonZero(SubSeq(reader.ins, 1, reader.icur))
    /\ Instructions # <<>> => Instructions[1][1] = "block"
    /\ Instructions = <<>> => reader.icur = 8

\* The first cell of the second row has been given a code of the block
\* fetched for the first row, after a 0 of that block was passed over.
C19_Witness ==
  /\ Compressed
  /\ CellCalled
  /\ Len(reader.rows) = 1
  /\ CellLog # <<>>
  /\ CellLog[1][1] = "code"
  /\ Len(Cell.rd.log) > 0
  /\ Cell.rd.log[Len(Cell.rd.log)] = <<"Row", 1>>
  /\ \E b \in 1..reader.icur : reader.ins[b] = 0

(***************************************************************************)
(* C20                                                                     *)
(***************************************************************************)
\* What the reader took from the feeder, in order: instruction blocks and
\* literals, each with the offset it was taken at.
Taken == SelectSeq(reader.log, LAMBDA e : e[1] \in {"block", "literal", "raw"})

\* Where the case data start.
CaseStart == reader.schema.internal.finished[1]

\* read is among the rows, or has failed there.
Decoding ==
  \/ reader.pc \in {"row", "cell", "end"}
  \/ reader.pc = "failed" /\ CellCalled /\ Failed(Cell.got)

\* The index in the log of the instruction block that holds the code of
\* index j: the last block fetched before it.
BlockOf(j) ==
  CHOOSE b \in 1..j :
    /\ reader.log[b][1] = "block"
    /\ \A h \in (b + 1)..j : reader.log[h][1] # "block"

\* C20: while a compressed file is decoded, the bytes consumed from the
\* start of the case data are 8 for each instruction block fetched and 8
\* for each literal read, and so it was at each of these readings: the
\* n-th was made at 8 * (n - 1) bytes from the start.  The literal of a
\* code 253 is read right after the code is returned, at the cursor of that
\* moment: past the block that holds the code and past every earlier
\* literal.
C20_BytesConsumed ==
  (Compressed /\ Decoding) =>
    /\ cursor - CaseStart
         = 8 * (Count(reader.log, "block") + Count(reader.log, "literal"))
    /\ Count(reader.log, "raw") = 0
    /\ \A n \in 1..Len(Taken) : Taken[n][2] = CaseStart + 8 * (n - 1)
    /\ \A j \in 1..Len(reader.log) :
         reader.log[j][1] = "literal" =>
           /\ j > 1
           /\ reader.log[j - 1] = <<"code", 253>>
           /\ reader.log[j][2] >= reader.log[BlockOf(j)][2] + 8
           /\ \A h \in 1..(j - 1) :
                reader.log[h][1] = "literal" => reader.log[j][2] >= reader.log[h][2] + 8

\* Two codes 253 of one instruction block: the literal of the first is
\* the 8 bytes after the block, the literal of the second the 8 bytes
\* after the first literal.
C20_Witness ==
  /\ Compressed
  /\ Decoding
  /\ Count(reader.log, "block") = 1
  /\ Count(reader.log, "literal") = 2
  /\ Args(reader.log, "literal") = <<CaseStart + 8, CaseStart + 16>>
  /\ cursor = CaseStart + 24

(***************************************************************************)
(* The records of the dictionary, read under SpecRecords                   *)
(***************************************************************************)
\* The loop of readInternal of call i is about to read an extension record
\* (tag 7) whose 12-byte sub-header is in the buffer.
AtExtension(i) ==
  /\ running = i
  /\ StageOf(calls[i]) = "readInternal"
  /\ cursor >= 0
  /\ cursor + 16 <= Len(buffer)
  /\ getInt32(buffer, cursor) = ExtensionTag

Subtype(cur) == getInt32(buffer, cur + 4)

\* The element size x element count of the record whose tag is at cur.
Product(cur) == ElementSize(cur) * ElementCount(cur)

\* The size check of the record at cur fails.
SizeMismatch(cur) ==
  \/ Subtype(cur) = 3 /\ Product(cur) # 32
  \/ Subtype(cur) = 4 /\ Product(cur) # 24
  \/ Subtype(cur) = 11 /\ ElementSize(cur) # 4
  \/ Subtype(cur) = 11 /\ ElementCount(cur) % 3 # 0

SizeErrors ==
  {"Special code 3 Expected: 32 bytes", "Special code 4 Expected: 24 bytes",
   "Special code 11 Expected: 4 bytes",
   "Special code 11 Expected: Length factor of 3"}

\* The n display formats stored from off on, in file order.
Triples(off, n) ==
  [k \in 1..n |-> [type  |-> getInt32(buffer, off + 12 * (k - 1)),
                   width |-> getInt32(buffer, off + 12 * (k - 1) + 4),
                   align |-> getInt32(buffer, off + 12 * (k - 1) + 8)]]

\* C21: the iteration that reads an extension record of subtype 3 whose
\* element size x element count is not 32, of subtype 4 whose product is
\* not 24, or of subtype 11 whose element size is not 4 or whose element
\* count is not a multiple of 3, fails the parse with a size error before
\* a byte of the payload is read: the loop ends, the call has no value and
\* the cursor is at the end of the sub-header.  The iteration that reads a
\* subtype-11 record that passes its checks, when it does not fail, appends
\* to the display list the count / 3 triples of its payload, in file order.
C21_KnownSubtypesSizeChecked ==
  [][\A i \in Slots :
       AtExtension(i) =>
         /\ SizeMismatch(cursor) =>
              /\ calls'[i].err.kind \in SizeErrors
              /\ calls'[i].val = <<>>
              /\ calls'[i].acc = <<>>
              /\ running' = 0
              /\ cursor' = cursor + 16
         /\ (Subtype(cursor) = 11 /\ ~SizeMismatch(cursor)
               /\ ~Rejected(calls'[i]))
              => /\ running' = i
                 /\ calls'[i].acc.display
                      = calls[i].acc.display
                          \o Triples(cursor + 16, ElementCount(cursor) \div 3)]_vars

\* The loop goes on with the two display formats of a record of 6 elements
\* of 4 bytes in its list.
C21_Witness ==
  \E i \in Slots :
    /\ running = i
    /\ StageOf(calls[i]) = "readInternal"
    /\ Len(calls[i].acc.display) = 2
    /\ calls[i].acc.display[1].type = 67305985
    /\ calls[i].acc.display[2].type = 269422093

\* C22: whatever the subtype of an extension record, the iteration that
\* reads it without an error leaves the cursor at the position of the tag
\* + 16 + element size x element count.
C22_ExtensionCursor ==
  [][\A i \in Slots :
       (AtExtension(i) /\ ~Rejected(calls'[i]))
         => cursor' = cursor + 16 + Product(cursor)]_vars

\* The loop goes on after a subtype-21 record of 8 elements of 4 bytes that
\* followed the one field record: the cursor is 16 + 32 bytes past the tag.
C22_Witness ==
  \E i \in Slots :
    /\ running = i
    /\ StageOf(calls[i]) = "readInternal"
    /\ calls[i].acc.extra = <<Counted(32)>>
    /\ calls[i].istart = <<208>>
    /\ cursor = 208 + 16 + 32

\* The loop of readInternal of call i is about to take an iteration.
AtInternal(i) == running = i /\ StageOf(calls[i]) = "readInternal"

\* s is the start of t.
Prefix(s, t) == Len(s) <= Len(t) /\ SubSeq(t, 1, Len(s)) = s

\* The lists of partial are kept, in their order, in those of grown.
Kept(partial, grown) ==
  /\ Prefix(partial.levels, grown.levels)
  /\ Prefix(partial.documents, grown.documents)
  /\ Prefix(partial.display, grown.display)
  /\ Prefix(partial.extra, grown.extra)
  /\ Prefix(partial.unrecognized, grown.unrecognized)

\* C23: the iteration of the internal-record loop that reads the tag 999,
\* with 4 bytes after it, ends the loop: the call has the records gathered
\* so far, in their order, and the position of the tag + 8 as the start of
\* the case data, and no iteration follows.  The loop ends without an error
\* in no other iteration, and an iteration after which the loop goes on
\* keeps the tables, documents and extension records gathered before it, in
\* their order.
C23_TerminatorEndsLoop ==
  [][\A i \in Slots :
       AtInternal(i) =>
         \E t \in {nextInt32(buffer, cursor)} :
           /\ (~Failed(t) /\ t.val = FinishTag /\ cursor + 8 <= Len(buffer))
                => /\ running' = 0
                   /\ ~Rejected(calls'[i])
                   /\ calls'[i].val.internal
                        = [calls[i].acc EXCEPT !.finished = <<cursor + 8>>]
           /\ (running' = 0 /\ ~Rejected(calls'[i]))
                => ~Failed(t) /\ t.val = FinishTag
           /\ running' = i => Kept(calls[i].acc, calls'[i].acc)]_vars

\* The loop of readFields of call i is about to take an iteration.
AtFields(i) ==
  running = i /\ StageOf(calls[i]) \in {"syncFields", "readFields"}

\* The bytes of the field record whose tag is at cur (cur + 32 within the
\* buffer): the tag, the 28 bytes, the label block when the label flag is
\* set and the missing-value block when the count is not 0.
FieldRecordSize(cur) ==
  LET labeled == getInt32(buffer, cur + 8) # 0
      missings == getInt32(buffer, cur + 12)
      block == IF labeled THEN 4 + LabelSize(getInt32(buffer, cur + 32)) ELSE 0
  IN 32 + block + 8 * Abs(missings)

\* C24: the loop of readFields ends without an error only in an iteration
\* that reads a tag other than 2, and that iteration leaves the cursor
\* where it found it, at the first byte of that tag; an iteration after
\* which the loop goes on has read the tag 2 and leaves the cursor at the
\* end of the record of that tag: after its 28 bytes, its label block and
\* its missing-value block.  The first iteration of the loop of
\* readInternal of the same call reads its tag where the loop of readFields
\* left the cursor.
C24_FieldLoopEnd ==
  [][\A i \in Slots :
       /\ AtFields(i) =>
            \E t \in {nextInt32(buffer, cursor)} :
              /\ (running' = 0 /\ ~Rejected(calls'[i]))
                   => /\ t.val # FieldTag
                      /\ cursor' = cursor
                      /\ calls'[i].fend = <<cursor>>
              /\ running' = i
                   => /\ t.val = FieldTag
                      /\ cursor' = cursor + FieldRecordSize(cursor)
       /\ (AtInternal(i) /\ calls[i].tags = {})
            => /\ calls[i].fend = <<cursor>>
               /\ calls'[i].tags = {getInt32(buffer, calls[i].fend[1])}]_vars

\* The loop of readInternal is about to read its first tag, the tag 999 at
\* 252, where the loop of readFields ended after a field record of 44
\* bytes, label block included, and one of 32.
C24_Witness ==
  \E i \in Slots :
    /\ AtInternal(i)
    /\ calls[i].tags = {}
    /\ Len(calls[i].val.headers) = 2
    /\ calls[i].val.headers[1].label = <<97, 97, 97, 97, 97>>
    /\ calls[i].fend = <<252>>
    /\ cursor = 252
    /\ getInt32(buffer, 252) = FinishTag

\* The type codes of the field records that follow one another from cur on,
\* at most n of them.
RECURSIVE CodesFrom(_, _)
CodesFrom(cur, n) ==
  IF n = 0 \/ cur < 0 \/ cur + 32 > Len(buffer) \/ getInt32(buffer, cur) # FieldTag
    THEN <<>>
    ELSE <<getInt32(buffer, cur + 4)>> \o CodesFrom(cur + FieldRecordSize(cur), n - 1)

\* The index, among codes, of the k-th code that is not negative.
Nth(codes, k) ==
  CHOOSE j \in 1..Len(codes) :
    codes[j] >= 0 /\ Cardinality({h \in 1..j : codes[h] >= 0}) = k

\* The negative codes that directly follow the j-th code.
Following(codes, j) ==
  Cardinality({h \in (j + 1)..Len(codes) : \A g \in (j + 1)..h : codes[g] < 0})

\* fields are the records of codes whose code is not negative, in order,
\* each with the count of the continuation records that directly follow it.
Folded(fields, codes) ==
  /\ Len(fields) = Cardinality({h \in 1..Len(codes) : codes[h] >= 0})
  /\ \A k \in 1..Len(fields) :
       /\ fields[k].code = codes[Nth(codes, k)]
       /\ fields[k].trailers = Following(codes, Nth(codes, k))

\* C25: the iteration of the loop of readFields that reads a whole field
\* record of negative type code raises by one the trailer count of the last
\* field of the list and changes nothing else of the list, or fails the
\* parse when the list is empty; the one that reads a record of type code
\* >= 0 appends it, at its place and with no trailer.  When the loop ends
\* without an error, the list holds the records of type code >= 0 in the
\* order of the file, each with the count of the continuation records that
\* directly follow it.
C25_ContinuationsFolded ==
  [][\A i \in Slots :
       (AtFields(i) /\ cursor >= 0 /\ cursor + 32 <= Len(buffer)
          /\ getInt32(buffer, cursor) = FieldTag)
         => /\ (getInt32(buffer, cursor + 4) < 0 /\ running' = i)
                 => /\ calls[i].acc # <<>>
                    /\ calls'[i].acc
                         = [calls[i].acc EXCEPT ![Len(calls[i].acc)].trailers = @ + 1]
            /\ (getInt32(buffer, cursor + 4) < 0 /\ calls[i].acc = <<>>)
                 => Rejected(calls'[i]) /\ running' = 0 /\ calls'[i].val = <<>>
            /\ (getInt32(buffer, cursor + 4) >= 0 /\ running' = i)
                 => /\ Len(calls'[i].acc) = Len(calls[i].acc) + 1
                    /\ SubSeq(calls'[i].acc, 1, Len(calls[i].acc)) = calls[i].acc
                    /\ calls'[i].acc[Len(calls'[i].acc)].code
                         = getInt32(buffer, cursor + 4)
                    /\ calls'[i].acc[Len(calls'[i].acc)].start = cursor + 4
                    /\ calls'[i].acc[Len(calls'[i].acc)].trailers = 0]_vars
    /\ [][\A i \in Slots :
            (AtFields(i) /\ running' = 0 /\ ~Rejected(calls'[i]))
              => Folded(calls'[i].val.headers, CodesFrom(HeaderSize, 4))]_vars

\* The loop of readFields has ended on the records of type codes 16, -1
\* and -1 with one field of two trailers.
C25_Witness ==
  \E i \in Slots :
    /\ calls[i].fend = <<272>>
    /\ StageOf(calls[i]) = "readInternal"
    /\ CodesFrom(HeaderSize, 4) = <<16, -1, -1>>
    /\ Len(calls[i].val.headers) = 1
    /\ calls[i].val.headers[1].trailers = 2

\* The least multiple of m that is >= n.
RoundedUp(n, m) ==
  IF n >= 0 THEN ((n + m - 1) \div m) * m ELSE -(((-n) \div m) * m)

\* The loop of readFields of call i is about to read a field record whose
\* tag and 28 bytes are in the buffer.
AtFieldRecord(i) ==
  /\ AtFields(i)
  /\ cursor >= 0
  /\ cursor + 32 <= Len(buffer)
  /\ getInt32(buffer, cursor) = FieldTag

\* The field the iteration has just put in the list.
Appended(c) == c.acc[Len(c.acc)]

\* C26: the iteration that reads a field record whose label flag is set
\* and goes on has consumed, between the 28 bytes and the missing-value
\* block, the 4 bytes of the length L and L rounded up to the next multiple
\* of 4 bytes of text, whatever L is declared; with a label flag of 0 it has
\* consumed no byte there and the label of the field is empty.
C26_LabelBlock ==
  [][\A i \in Slots :
       (AtFieldRecord(i) /\ running' = i)
         => \E labeled \in {getInt32(buffer, cursor + 8)},
               missings \in {getInt32(buffer, cursor + 12)} :
              /\ labeled # 0
                   => cursor' = cursor + 32 + 4
                                  + RoundedUp(getInt32(buffer, cursor + 32), 4)
                                  + 8 * Abs(missings)
              /\ labeled = 0
                   => /\ cursor' = cursor + 32 + 8 * Abs(missings)
                      /\ getInt32(buffer, cursor + 4) >= 0
                           => Appended(calls'[i]).label = <<>>]_vars

\* v is the 8-byte value stored at off, read in one byte order or the other.
ValueAt(v, off) ==
  v \in {Bytes(buffer, off, off + 8), Reverse(Bytes(buffer, off, off + 8))}

\* codes are the n 8-byte values stored from off on, in order.
ValuesAt(codes, off, n) ==
  Len(codes) = n /\ \A k \in 1..n : ValueAt(codes[k], off + 8 * (k - 1))

\* The first byte of the missing-value block of the field record whose tag
\* is at cur.
MissingStart(cur) ==
  cur + 32 + (IF getInt32(buffer, cur + 8) # 0
                THEN 4 + LabelSize(getInt32(buffer, cur + 32)) ELSE 0)

\* The missing-value specification a count of n selects from the block at
\* off, for a numeric field or a string field.
Selected(missing, numeric, n, off) ==
  /\ (numeric /\ n > 0)
       => /\ ValuesAt(missing.codes, off, n)
          /\ missing.range = <<>>
          /\ missing.strings = <<>>
  /\ (numeric /\ n = -2)
       => /\ missing.codes = <<>>
          /\ ValuesAt(missing.range, off, 2)
          /\ missing.strings = <<>>
  /\ (numeric /\ n = -3)
       => /\ ValuesAt(missing.range, off, 2)
          /\ ValuesAt(missing.codes, off + 16, 1)
          /\ missing.strings = <<>>
  /\ (~numeric /\ n > 0)
       => /\ missing.codes = <<>>
          /\ missing.range = <<>>
          /\ Len(missing.strings) = n
          /\ \A k \in 1..n :
               missing.strings[k]
                 = decode(Bytes(buffer, off + 8 * (k - 1), off + 8 * k))
  /\ n = 0 => missing = NoMissing

\* C27: the iteration that reads a field record of missing-value count n
\* and goes on has consumed 8 x |n| bytes of missing-value block, and the
\* field it appends holds what n selects: for a numeric field, n discrete
\* codes and no range when n > 0, a range and no discrete code when n = -2,
\* a range and one discrete code, the third 8-byte value, when n = -3; for
\* a string field, n 8-byte missing strings when n > 0; nothing when n = 0.
C27_MissingBlock ==
  [][\A i \in Slots :
       (AtFieldRecord(i) /\ running' = i)
         => \E code \in {getInt32(buffer, cursor + 4)},
               n \in {getInt32(buffer, cursor + 12)} :
              /\ cursor' = MissingStart(cursor) + 8 * Abs(n)
              /\ code >= 0
                   => Selected(Appended(calls'[i]).missing, code = 0, n,
                               MissingStart(cursor))]_vars

\* The list holds a numeric field that was read after a label block, with
\* a range and one discrete code.
C27_Witness ==
  \E i \in Slots :
    /\ AtFields(i)
    /\ Len(calls[i].acc) = 1
    /\ calls[i].acc[1].label # <<>>
    /\ Len(calls[i].acc[1].missing.range) = 2
    /\ calls[i].acc[1].missing.codes = <<<<17, 18, 19, 20, 21, 22, 23, 24>>>>

\* The label length of the level stored at off: one byte, 0..255.
LabelLength(off) == buffer[off + 9]

\* The first byte after the level stored at off: its 8 key bytes, and the
\* least multiple of 8 that holds the length byte and the label.
LevelEnd(off) == off + 8 + RoundedUp(LabelLength(off) + 1, 8)

\* The offsets of the n levels stored one after the other from off on, and
\* after them the offset of what follows the last; <<-1>> when the buffer
\* ends before.
RECURSIVE LevelsFrom(_, _)
LevelsFrom(off, n) ==
  IF n = 0 THEN <<off>>
  ELSE IF off + 9 > Len(buffer) \/ LevelEnd(off) > Len(buffer) THEN <<-1>>
  ELSE <<off>> \o LevelsFrom(LevelEnd(off), n - 1)

\* At off is the tag of a value-label table that is whole: its n levels,
\* its 8-byte header with the magic value 4, and its indices.
WholeTable(off) ==
  /\ off >= 0
  /\ off + 8 <= Len(buffer)
  /\ getInt32(buffer, off) = ScaleTag
  /\ getInt32(buffer, off + 4) \in 0..4
  /\ \E at \in {LevelsFrom(off + 8, getInt32(buffer, off + 4))} :
       /\ at[Len(at)] >= 0
       /\ at[Len(at)] + 8 <= Len(buffer)
       /\ getInt32(buffer, at[Len(at)]) = ScaleMagic
       /\ getInt32(buffer, at[Len(at)] + 4) >= 0
       /\ at[Len(at)] + 8 + 4 * getInt32(buffer, at[Len(at)] + 4) <= Len(buffer)

\* The level stored at off: its key, and the first LabelLength characters
\* of its text.
LevelAt(off) ==
  [k |-> FloatKey(getFloat64(buffer, off, TRUE)),
   v |-> decode(Bytes(buffer, off + 9, off + 9 + LabelLength(off)))]

\* C28: the iteration that reads a whole value-label table goes on, with
\* each level read where the one before it ended: a level of label length
\* L, whatever L is in 0..255, takes its 8 key bytes and the least multiple
\* of 8 that is >= L + 1, its label is the first L characters of its text,
\* and the cursor ends after the header and the indices that follow the
\* last level.
C28_LevelBlock ==
  [][\A i \in Slots :
       (AtInternal(i) /\ WholeTable(cursor))
         => \E at \in {LevelsFrom(cursor + 8, getInt32(buffer, cursor + 4))} :
              /\ running' = i
              /\ cursor' = at[Len(at)] + 8 + 4 * getInt32(buffer, at[Len(at)] + 4)
              /\ Len(calls'[i].acc.levels) = Len(calls[i].acc.levels) + 1
              /\ calls'[i].acc.levels[Len(calls'[i].acc.levels)].map
                   = MapMerge(<<>>, [k \in 1..(Len(at) - 1) |-> LevelAt(at[k])])]_vars

(***************************************************************************)
(* The rows of the DataReader, read under SpecData                         *)
(***************************************************************************)
\* read has returned or thrown.
ReadOver == reader.pc \in {"done", "failed"}

\* The schema of the same file with the other of the compression flags 1
\* and 2 in its header.
OtherFlag == [reader.schema EXCEPT !.meta.compression = 3 - @]

\* C29: what read gives for a file of compression flag 1 (its rows, or its
\* error, and the cursor it leaves) is what it gives for the file that
\* differs only by a compression flag of 2, whatever the fields and the
\* bytes of the case data.
C29_Flag2AsFlag1 ==
  (ReadOver /\ reader.schema.meta.compression \in {1, 2})
    => \E r \in {read(buffer, OtherFlag, reader.position)} :
         /\ r.cur = cursor
         /\ r.err = reader.err
         /\ ~Failed(r) => r.val = reader.rows

\* read has returned the rows of a file of compression flag 2 whose first
\* field is numeric, after it decoded a literal.
C29_Witness ==
  /\ reader.pc = "done"
  /\ reader.schema.meta.compression = 2
  /\ reader.schema.headers[1].code = 0
  /\ Len(reader.rows) = 2
  /\ <<"code", 253>> \in {reader.log[j] : j \in 1..Len(reader.log)}

\* The names of the fields, in the order of their declaration.
Names == [k \in 1..Len(reader.schema.headers) |-> reader.schema.headers[k].name]

\* The keys of a row, in the order of its entries.
RowNames(row) == [k \in 1..Len(row) |-> row[k].k]

\* s without the elements that come earlier in s.
FirstOnes(s) ==
  LET I == {k \in 1..Len(s) : \A h \in 1..(k - 1) : s[h] # s[k]}
  IN [j \in 1..Cardinality(I) |->
        s[CHOOSE k \in I : Cardinality({h \in I : h <= k}) = j]]

\* The cells were decoded in the order of the fields, row after row.
CellsInOrder ==
  \A j \in 1..Count(reader.log, "Cell") :
    Args(reader.log, "Cell")[j] = Names[((j - 1) % Len(Names)) + 1]

\* C30 as stated: every row read has one entry for each field of the field
\* list, in the order of the declarations and keyed by the name of the
\* field, and the cells are decoded in that order, whatever the field list,
\* two fields of the same name included.
C30_OneEntryPerField ==
  /\ \A n \in 1..Len(reader.rows) : RowNames(reader.rows[n]) = Names
  /\ CellsInOrder

\* The row the reader is building, or the one it has just built.
Building(rdr) == IF rdr.pc = "cell" THEN rdr.row ELSE rdr.rows[Len(rdr.rows)]

\* row is before with the entry of name set to value: a name that before
\* holds keeps its place, a new one comes last, and no other entry changes.
EntrySet(before, row, name, value) ==
  /\ RowNames(row) = FirstOnes(RowNames(before) \o <<name>>)
  /\ \A k \in 1..Len(row) :
       row[k].v = IF row[k].k = name THEN value ELSE before[k].v

\* C30 for names that may come twice: every row read has one entry for each
\* name of the field list, in the order in which the names first come, and
\* the cells are decoded in the order of the declarations; the cell of a
\* field becomes the value of the entry of its name, in place of the cell
\* of an earlier field of the same name.  With names that differ there is
\* one entry for each field, in the order of the declarations.
C30_OneEntryPerName ==
  /\ [](/\ \A n \in 1..Len(reader.rows) :
             RowNames(reader.rows[n]) = FirstOnes(Names)
        /\ CellsInOrder)
  /\ [][(reader.pc = "cell" /\ reader'.pc # "failed")
          => EntrySet(reader.row, Building(reader'),
                      reader.schema.headers[reader.h].name,
                      reader'.cell[1].got.val)]_vars

\* read has returned two rows of one entry for a numeric field and a string
\* field that are both named A: the entry holds the string.
C30_Witness ==
  /\ reader.pc = "done"
  /\ Len(Names) = 2
  /\ Names[1] = Names[2]
  /\ Len(reader.rows) = 2
  /\ Len(reader.rows[1]) = 1
  /\ reader.rows[1][1].v = Str(Hello)

(***************************************************************************)
(* The text maps of the subtypes 13 and 14                                 *)
(***************************************************************************)
\* The payload of the extension record whose tag is at cur is in the buffer.
PayloadAt(cur) == Product(cur) >= 0 /\ cur + 16 + Product(cur) <= Len(buffer)

\* Its text.
Blob(cur) == decode(Bytes(buffer, cur + 16, cur + 16 + Product(cur)))

\* The pieces of a text between its tabs, without a last piece that is
\* empty.
Pieces(text) ==
  LET rows == Split(text, Tab)
  IN IF rows[Len(rows)] = <<>> THEN SubSeq(rows, 1, Len(rows) - 1) ELSE rows

\* Every piece is a pair name=value.
PairsOnly(text) ==
  \A n \in 1..Len(Pieces(text)) : Len(Split(Pieces(text)[n], EqualsSign)) = 2

\* The pairs of a long-string-width text, the values as integers.
WidthPairs(text) ==
  [n \in 1..Len(Pieces(text)) |->
     [k |-> Split(Pieces(text)[n], EqualsSign)[1],
      v |-> parseInt10(<<Split(Pieces(text)[n], EqualsSign)[2]>>)]]

\* The value a map holds for a key it has.
ValueOf(m, k) == m[CHOOSE n \in 1..Len(m) : m[n].k = k].v

\* The value of the last of the entries that has the key.
LastOf(entries, k) ==
  entries[CHOOSE n \in 1..Len(entries) :
            entries[n].k = k /\ \A h \in (n + 1)..Len(entries) : entries[h].k # k].v

\* merged is the map before with the entries laid over it: it has the keys
\* of both, once each, a key of the entries with its last value there and
\* any other key with the value it had.
Overlaid(before, entries, merged) ==
  /\ Keys(merged) = Keys(before) \cup Keys(entries)
  /\ Cardinality(Keys(merged)) = Len(merged)
  /\ \A k \in Keys(merged) :
       ValueOf(merged, k) = IF k \in Keys(entries) THEN LastOf(entries, k)
                            ELSE ValueOf(before, k)

\* C31: the iteration that reads a subtype-14 record whose text is made of
\* name=value pairs lays over the long-string-width map every pair of the
\* text, its value parsed as an integer, but for a last piece that is
\* empty; the iteration that reads a subtype-13 record lays the pairs of
\* its text over the long-name map.  A pair of a later record takes the
\* place of the pair an earlier record gave the same name, and the other
\* map is left as it was.
C31_TextMapsMerged ==
  [][\A i \in Slots :
       (AtExtension(i) /\ Subtype(cursor) \in {13, 14} /\ PayloadAt(cursor))
         => /\ running' = i
            /\ (Subtype(cursor) = 14 /\ PairsOnly(Blob(cursor)))
                 => /\ Overlaid(calls[i].acc.longs, WidthPairs(Blob(cursor)),
                                calls'[i].acc.longs)
                    /\ calls'[i].acc.names = calls[i].acc.names
            /\ Subtype(cursor) = 13
                 => /\ Overlaid(calls[i].acc.names,
                                Pairs(Split(Blob(cursor), Tab)),
                                calls'[i].acc.names)
                    /\ calls'[i].acc.longs = calls[i].acc.longs]_vars

\* C32: whatever calls of jump and next were made, by the user with any
\* integer argument or by the parser with positions and sizes computed from
\* the fields of the file, the cursor is a position of the buffer, and a
\* call of next(n) that did not fail returned exactly n bytes, the ones of
\* the buffer from the cursor on.
C32_OffsetInBuffer ==
  /\ cursor \in Positions
  /\ (last.kind = "next" /\ ~Rejected(last))
       => /\ Len(last.val) = last.arg
          /\ last.entry \in Positions
          /\ last.entry + last.arg \in Positions
          /\ last.val = SubSeq(buffer, last.entry + 1, last.entry + last.arg)

\* The endianness flag of the machine-integer record of the file: <<flag>>,
\* or <<>> when the file has no such record.
EndiannessFlag ==
  IF reader.schema.internal.integer = <<>> THEN <<>>
  ELSE <<reader.schema.internal.integer[1].endianness>>

\* C33: a numeric cell of an uncompressed file that was read has taken 8
\* bytes from the cursor, in one reading, and its value is those 8 bytes
\* read least significant byte first when the endianness flag of the file
\* is 2, and most significant byte first with any other flag and with no
\* machine-integer record at all.
C33_UncompressedNumber ==
  (NumericCell /\ ~Compressed /\ CellReturned) =>
    /\ Consumed = 8
    /\ CellLog = <<<<"raw", Cell.rd.cur>>>>
    /\ Cell.got.val
         = Num(IF EndiannessFlag = <<2>> THEN Reverse(Eight(Cell.rd.cur))
               ELSE Eight(Cell.rd.cur))

\* The 8 bytes of the double 7, which read differently from their other
\* end, as the numeric cell of an uncompressed file that has no
\* machine-integer record.
C33_Witness ==
  /\ NumericCell
  /\ ~Compressed
  /\ CellReturned
  /\ EndiannessFlag = <<>>
  /\ Eight(Cell.rd.cur) = F64(7)
  /\ Cell.got.val = Num(F64(7))
====
